---- MODULE Spec2Model ----
(***************************************************************************)
(* A model of the ion shell's variable store (lib/shell/variables.rs) and  *)
(* of its pipeline executor (shell/mod.rs).                                *)
(*                                                                         *)
(* Text is modelled as a sequence of one-character strings, so that        *)
(* starts_with, find, slicing and concatenation are what the code does.    *)
(***************************************************************************)
EXTENDS Integers, Sequences, FiniteSets, TLC

VARIABLES
    scopes,     \* Variables.0: the active frames, outermost first, innermost last
    detached,   \* frames handed to the caller by pop_scopes, not yet reattached
    env,        \* the process environment: a function from names to text
    op,         \* the operation that ran last and its arguments
    ret,        \* what that operation returned
    pre,        \* scopes as they were when that operation started
    functions,        \* Shell.functions: the declared functions by name
    aliases,          \* Shell.variables.aliases: replacement text by alias name
    previous_status,  \* Shell.previous_status
    history,          \* Shell.context.history: the lines pushed so far
    stack,            \* the calls in progress, the running one last
    commands          \* how many command lines the shell has read

storeVars == <<scopes, detached, env, op, ret, pre>>
shellVars == <<functions, aliases, previous_status, history, stack, commands>>
vars == <<scopes, detached, env, op, ret, pre,
          functions, aliases, previous_status, history, stack, commands>>

------------------------------------------------------------------------------
(* Bounds of the model *)

\* the deepest scope stack the model builds
MaxDepth == 3
\* the most bindings the model keeps in the whole store
MaxBindings == 2

------------------------------------------------------------------------------
(* Text *)

starts_with(s, p) == Len(s) >= Len(p) /\ SubSeq(s, 1, Len(p)) = p
ends_with(s, p) == Len(s) >= Len(p) /\ SubSeq(s, Len(s) - Len(p) + 1, Len(s)) = p

\* s[n..] with n a zero-based byte offset
slice_from(s, n) == SubSeq(s, n + 1, Len(s))

\* s[..n]
slice_to(s, n) == SubSeq(s, 1, n)

\* str::find: the zero-based offset of the first occurrence of pat, or -1
find(s, pat) ==
    LET hits == {i \in 0..(Len(s) - Len(pat)) : SubSeq(s, i + 1, i + Len(pat)) = pat}
    IN  IF hits = {} THEN -1 ELSE CHOOSE i \in hits : \A j \in hits : i <= j

GLOBAL_NS == <<"g", "l", "o", "b", "a", "l", ":", ":">>
SUPER_NS == <<"s", "u", "p", "e", "r", ":", ":">>
SEP == <<":", ":">>

------------------------------------------------------------------------------
(* Values and results *)

Str(t) == [t |-> "Str", v |-> t]
Array(a) == [t |-> "Array", v |-> a]

None == [t |-> "None"]
Some(x) == [t |-> "Some", v |-> x]

Ok(x) == [t |-> "Ok", v |-> x]
Err(kind, payload) == [t |-> "Err", kind |-> kind, v |-> payload]

\* Namespace of the scopes crate
NsGlobal == [ns |-> "Global", up |-> 0]
NsSpecific(up) == [ns |-> "Specific", up |-> up]
NsAny == [ns |-> "Any", up |-> 0]

------------------------------------------------------------------------------
(* Frames: a frame is a function from the names it binds to their values *)

EmptyFrame == [n \in {} |-> None]

Binds(frame, name) == name \in DOMAIN frame

Bind(frame, name, value) ==
    [n \in (DOMAIN frame) \cup {name} |-> IF n = name THEN value ELSE frame[n]]

Unbind(frame, name) == [n \in (DOMAIN frame) \ {name} |-> frame[n]]

\* the frames, innermost to outermost, that bind the name
Binding(sc, name) == {i \in 1..Len(sc) : Binds(sc[i], name)}

Innermost(S) == CHOOSE i \in S : \A j \in S : j <= i

------------------------------------------------------------------------------
(* The scope stack (Scopes): search order and frame operations *)

\* Scopes::get_ref: Any searches innermost to outermost; Global resolves in the
\* outermost frame only; Specific(up) skips the up innermost frames.
Scopes_get_ref(sc, name, namespace) ==
    LET top == IF namespace.ns = "Global" THEN 1
               ELSE IF namespace.ns = "Specific" THEN Len(sc) - namespace.up
               ELSE Len(sc)
        found == {i \in Binding(sc, name) : i <= top}
    IN  IF found = {} THEN None ELSE Some(sc[Innermost(found)][name])

\* Scopes::get_mut: the frame, searched from the current one outward, that
\* binds the name; 0 when none does
Scopes_get_mut(sc, name) ==
    IF Binding(sc, name) = {} THEN 0 ELSE Innermost(Binding(sc, name))

\* Scopes::set: bind in the current innermost frame
Scopes_set(sc, name, value) ==
    [sc EXCEPT ![Len(sc)] = Bind(sc[Len(sc)], name, value)]

\* Scopes::remove_variable: delete from the first frame, innermost out, that
\* binds the name
Scopes_remove_variable(sc, name) ==
    LET i == Scopes_get_mut(sc, name)
    IN  IF i = 0 THEN [scopes |-> sc, ret |-> None]
        ELSE [scopes |-> [sc EXCEPT ![i] = Unbind(sc[i], name)],
              ret |-> Some(sc[i][name])]

Scopes_new_scope(sc, namespace) == Append(sc, EmptyFrame)

Scopes_pop_scope(sc) == SubSeq(sc, 1, Len(sc) - 1)

\* Scopes::pop_scopes: frames 0..index stay, the suffix above them is returned
Scopes_pop_scopes(sc, index) ==
    [scopes |-> SubSeq(sc, 1, index + 1), ret |-> SubSeq(sc, index + 2, Len(sc))]

Scopes_append_scopes(sc, frames) == sc \o frames

------------------------------------------------------------------------------
(* Variables (lib/shell/variables.rs) *)

new_scope(sc, namespace) == Scopes_new_scope(sc, namespace)

pop_scope(sc) == Scopes_pop_scope(sc)

pop_scopes(sc, index) == Scopes_pop_scopes(sc, index)

\* reattachment below the frames that stayed
append_scopes_below(sc, frames) == Scopes_append_scopes(frames, sc)

append_scopes(sc, frames) == Scopes_append_scopes(sc, frames)

\* set that never looks for an existing binding
set_always_current(sc, name, value) == Scopes_set(sc, name, value)

\* Variables::set: replace the value get_mut finds, else bind in the current frame
set(sc, name, value) ==
    LET i == Scopes_get_mut(sc, name)
    IN  IF i # 0 THEN [sc EXCEPT ![i] = Bind(sc[i], name, value)]
        ELSE Scopes_set(sc, name, value)

\* remove_variable without its guard for qualified names
remove_variable_unguarded(sc, name) == Scopes_remove_variable(sc, name)

\* remove_variable that deletes the name from every frame
remove_variable_everywhere(sc, name) ==
    IF starts_with(name, SUPER_NS) \/ starts_with(name, GLOBAL_NS)
    THEN [scopes |-> sc, ret |-> None]
    ELSE [scopes |-> [i \in 1..Len(sc) |-> Unbind(sc[i], name)],
          ret |-> Scopes_remove_variable(sc, name).ret]

remove_variable(sc, name) ==
    IF starts_with(name, SUPER_NS) \/ starts_with(name, GLOBAL_NS)
    THEN [scopes |-> sc, ret |-> None]
    ELSE Scopes_remove_variable(sc, name)

\* Variables::get_mut: the frame whose value the returned reference points into
\* (0 for None)
get_mut(sc, name) ==
    IF starts_with(name, SUPER_NS) \/ starts_with(name, GLOBAL_NS)
    THEN 0
    ELSE Scopes_get_mut(sc, name)

RECURSIVE strip_super(_, _)
\* the while loop of get_ref: strip every leading super:: and count them
strip_super(name, up) ==
    IF starts_with(name, SUPER_NS)
    THEN strip_super(slice_from(name, Len(SUPER_NS)), up + 1)
    ELSE [name |-> name, up |-> up]

\* get_ref that strips a single super:: qualifier
get_ref_one_super(sc, name) ==
    IF starts_with(name, GLOBAL_NS)
    THEN Scopes_get_ref(sc, slice_from(name, Len(GLOBAL_NS)), NsGlobal)
    ELSE IF starts_with(name, SUPER_NS)
    THEN Scopes_get_ref(sc, slice_from(name, Len(SUPER_NS)), NsSpecific(1))
    ELSE Scopes_get_ref(sc, name, NsAny)

\* get_ref that searches every frame for a global:: name
get_ref_global_any(sc, name) ==
    IF starts_with(name, GLOBAL_NS)
    THEN Scopes_get_ref(sc, slice_from(name, Len(GLOBAL_NS)), NsAny)
    ELSE IF starts_with(name, SUPER_NS)
    THEN LET s == strip_super(name, 0)
         IN  Scopes_get_ref(sc, s.name, NsSpecific(s.up))
    ELSE Scopes_get_ref(sc, name, NsAny)

get_ref(sc, name) ==
    IF starts_with(name, GLOBAL_NS)
    THEN Scopes_get_ref(sc, slice_from(name, Len(GLOBAL_NS)), NsGlobal)
    ELSE IF starts_with(name, SUPER_NS)
    THEN LET s == strip_super(name, 0)
         IN  Scopes_get_ref(sc, s.name, NsSpecific(s.up))
    ELSE Scopes_get_ref(sc, name, NsAny)

------------------------------------------------------------------------------
(* Text operations used by the lookups *)

RECURSIVE replace(_, _, _)
\* str::replace: every non-overlapping match of pat, left to right, becomes
\* to; an empty pat matches before every character and at the end
replace(s, pat, to) ==
    IF pat = <<>>
    THEN IF s = <<>> THEN to ELSE to \o <<Head(s)>> \o replace(Tail(s), pat, to)
    ELSE IF s = <<>> THEN <<>>
    ELSE IF starts_with(s, pat)
         THEN to \o replace(slice_from(s, Len(pat)), pat, to)
         ELSE <<Head(s)>> \o replace(Tail(s), pat, to)

RECURSIVE split(_, _)
\* str::split(char): the pieces between the separators, empty pieces included
split(s, c) ==
    LET at == find(s, <<c>>)
    IN  IF at = -1 THEN <<s>>
        ELSE <<slice_to(s, at)>> \o split(slice_from(s, at + 1), c)

SelectNonEmpty(pieces) == SelectSeq(pieces, LAMBDA x : x # <<>>)

RECURSIVE concat(_)
\* the texts of a list, one after the other
concat(texts) == IF texts = <<>> THEN <<>> ELSE Head(texts) \o concat(Tail(texts))

\* all sequences of at most n elements of S
SeqUpTo(S, n) == UNION {[1..k -> S] : k \in 0..n}

HexDigits ==
    [c \in {"0", "1", "2", "3", "4", "5", "6", "7", "8", "9",
            "a", "b", "c", "d", "e", "f", "A", "B", "C", "D", "E", "F"} |->
        CASE c = "0" -> 0 [] c = "1" -> 1 [] c = "2" -> 2 [] c = "3" -> 3
          [] c = "4" -> 4 [] c = "5" -> 5 [] c = "6" -> 6 [] c = "7" -> 7
          [] c = "8" -> 8 [] c = "9" -> 9
          [] c \in {"a", "A"} -> 10 [] c \in {"b", "B"} -> 11
          [] c \in {"c", "C"} -> 12 [] c \in {"d", "D"} -> 13
          [] c \in {"e", "E"} -> 14 [] c \in {"f", "F"} -> 15]

RECURSIVE radix_digits(_, _)
\* the digit loop of from_str_radix for u8: the first error met left to right
radix_digits(digits, acc) ==
    IF digits = <<>> THEN Ok(acc)
    ELSE IF Head(digits) \notin DOMAIN HexDigits THEN Err("InvalidDigit", <<>>)
    ELSE IF acc * 16 + HexDigits[Head(digits)] > 255 THEN Err("PosOverflow", <<>>)
    ELSE radix_digits(Tail(digits), acc * 16 + HexDigits[Head(digits)])

\* a conversion that clamps a literal too large for a byte instead of failing
from_str_radix_saturating(text) ==
    IF text = <<>> THEN Err("Empty", <<>>)
    ELSE IF radix_digits(text, 0) = Err("PosOverflow", <<>>) THEN Ok(255)
    ELSE radix_digits(text, 0)

\* u8::from_str_radix(text, 16)
from_str_radix(text) ==
    IF text = <<>> THEN Err("Empty", <<>>)
    ELSE IF Len(text) = 1 /\ Head(text) \in {"+", "-"} THEN Err("InvalidDigit", <<>>)
    ELSE IF Head(text) = "+" THEN radix_digits(Tail(text), 0)
    ELSE radix_digits(text, 0)

\* (c as char): the character whose code is the byte
Chr(byte) ==
    CASE byte = 65 -> "A"
      [] byte = 66 -> "B"
      [] OTHER -> "\\x" \o ToString(byte)

\* env::var
env_var(e, name) ==
    IF name \in DOMAIN e THEN Ok(e[name]) ELSE Err("NotPresent", <<>>)

\* the names Colors::collect renders
KnownColors == {<<"r", "e", "d">>, <<"b", "o", "l", "d">>}

\* Colors::collect(..).to_string(): the escape sequence of a color, or an error
Colors_collect(variable) ==
    IF variable \in KnownColors
    THEN Ok(<<"\\e", "[">> \o variable \o <<"m">>)
    ELSE Err("ColorError", variable)

------------------------------------------------------------------------------
(* Lookups (lib/shell/variables.rs) *)

MWD == <<"M", "W", "D">>
SWD == <<"S", "W", "D">>
HOME == <<"H", "O", "M", "E">>
PWD == <<"P", "W", "D">>

Panic == [t |-> "Panic"]

\* a last arm that asks the environment before the frames
get_str_variable_env_first(sc, e, name) ==
    LET r == get_ref(sc, name)
    IN  IF env_var(e, name).t = "Ok" THEN env_var(e, name)
        ELSE IF r.t = "Some" /\ r.v.t = "Str" THEN Ok(r.v.v)
        ELSE Err("VarNotFound", <<>>)

\* a last arm that renders an array as the texts of its elements
get_str_variable_joins_arrays(sc, e, name) ==
    LET r == get_ref(sc, name)
    IN  IF r.t = "Some" /\ r.v.t = "Str" THEN Ok(r.v.v)
        ELSE IF r.t = "Some" /\ r.v.t = "Array" THEN Ok(<<"[", "]">>)
        ELSE IF env_var(e, name).t = "Ok" THEN env_var(e, name)
        ELSE Err("VarNotFound", <<>>)

\* the last arm of get_str for super::, global:: and unqualified names
get_str_variable(sc, e, name) ==
    LET r == get_ref(sc, name)
    IN  IF r.t = "Some" /\ r.v.t = "Str" THEN Ok(r.v.v)
        ELSE IF env_var(e, name).t = "Ok" THEN env_var(e, name)
        ELSE Err("VarNotFound", <<>>)

\* Variables::get_simplified_directory; HOME is neither MWD nor SWD and holds no
\* ::, so get_str("HOME") is the last arm of get_str
get_simplified_directory(sc, e) ==
    LET h == get_str_variable(sc, e, HOME)
        home == IF h.t = "Ok" THEN h.v ELSE <<"?">>
    IN  IF env_var(e, PWD).t # "Ok" THEN Panic
        ELSE Ok(replace(env_var(e, PWD).v, home, <<"~">>))

RECURSIVE minimal_elements(_)
\* the loop of get_minimal_directory over every element but the last
minimal_elements(elements) ==
    IF elements = <<>> THEN Ok(<<>>)
    ELSE LET element == Head(elements)
             grapheme == Head(element)
             rest == minimal_elements(Tail(elements))
         IN  IF grapheme = "." /\ Len(element) < 2 THEN Panic
             ELSE IF rest.t = "Panic" THEN Panic
             ELSE Ok((IF grapheme = "." THEN <<grapheme, element[2]>> ELSE <<grapheme>>)
                     \o <<"/">> \o rest.v)

\* Variables::get_minimal_directory
get_minimal_directory(sc, e) ==
    LET swd == get_simplified_directory(sc, e)
    IN  IF swd.t = "Panic" THEN Panic
        ELSE LET elements == SelectNonEmpty(split(swd.v, "/"))
                 out == minimal_elements(SubSeq(elements, 1, Len(elements) - 1))
             IN  IF Len(elements) > 2
                 THEN IF out.t = "Panic" THEN Panic
                      ELSE Ok(out.v \o elements[Len(elements)])
                 ELSE swd

\* the second match of get_str: the namespace before the first ::, if any
get_str_namespace(sc, e, name) ==
    LET pos == find(name, SEP)
        prefix == slice_to(name, pos)
        variable == slice_from(name, pos + 2)
    IN  IF pos = -1 THEN get_str_variable(sc, e, name)
        ELSE IF prefix \in {<<"c">>, <<"c", "o", "l", "o", "r">>}
             THEN Colors_collect(variable)
        ELSE IF prefix \in {<<"x">>, <<"h", "e", "x">>}
             THEN LET c == from_str_radix(variable)
                  IN  IF c.t = "Err"
                      THEN Err("InvalidHex", <<variable, <<c.kind>>>>)
                      ELSE Ok(<<Chr(c.v)>>)
        ELSE IF prefix = <<"e", "n", "v">>
             THEN IF env_var(e, variable).t = "Ok" THEN env_var(e, variable)
                  ELSE Err("UnknownEnv", variable)
        ELSE IF prefix \in {<<"s", "u", "p", "e", "r">>,
                            <<"g", "l", "o", "b", "a", "l">>}
             THEN get_str_variable(sc, e, name)
        ELSE Err("UnsupportedNamespace", name)

\* get_str without the pseudo-variable match
get_str_no_pseudo(sc, e, name) == get_str_namespace(sc, e, name)

\* Variables::get_str
get_str(sc, e, name) ==
    IF name = MWD THEN get_minimal_directory(sc, e)
    ELSE IF name = SWD THEN get_simplified_directory(sc, e)
    ELSE get_str_namespace(sc, e, name)

------------------------------------------------------------------------------
(* The names, values and environments the operations are driven with *)

X == <<"x">>
Y == <<"y">>
GlobalX == GLOBAL_NS \o X
SuperX == SUPER_NS \o X

RECURSIVE Supers(_)
\* k super:: qualifiers in a row
Supers(k) == IF k = 0 THEN <<>> ELSE SUPER_NS \o Supers(k - 1)

TextA == <<"a">>
TextB == <<"b">>
TextE == <<"e">>

\* the names the store is written through
WriteNames == {X, GlobalX, SuperX}

\* the names looked up through the frames
ReadNames == WriteNames \cup {Supers(k) \o X : k \in 1..MaxDepth}

\* pseudo-variables and names of the virtual namespaces
ColorRed == <<"c", "o", "l", "o", "r">> \o SEP \o <<"r", "e", "d">>
CRed == <<"c">> \o SEP \o <<"r", "e", "d">>
Hex41 == <<"h", "e", "x">> \o SEP \o <<"4", "1">>
X41 == <<"x">> \o SEP \o <<"4", "1">>
EnvX == <<"e", "n", "v">> \o SEP \o X

PriorityNames == {MWD, SWD, ColorRed, CRed, Hex41, X41, EnvX}

\* names whose computation fails: a hex literal that is no byte, an unknown
\* color, an environment miss, a namespace the store does not know
HexBad == <<"x">> \o SEP \o <<"1", "f", "f">>
ColorBad == <<"c">> \o SEP \o <<"z">>
EnvBad == <<"e", "n", "v">> \o SEP \o <<"n", "o">>
NsBad == <<"f", "o", "o">> \o SEP \o X

\* more hex literals: B, the largest byte, no digit at all, a letter that is
\* no hex digit
X42 == <<"x">> \o SEP \o <<"4", "2">>
HexFF == <<"h", "e", "x">> \o SEP \o <<"f", "F">>
HexEmpty == <<"h", "e", "x">> \o SEP
HexNoDigit == <<"x">> \o SEP \o <<"4", "g">>

HexNames == {Hex41, X41, X42, HexFF, HexBad, HexEmpty, HexNoDigit}

\* y is bound nowhere and the environment never defines it
LookupNames ==
    ReadNames \cup PriorityNames \cup HexNames \cup {ColorBad, EnvBad, NsBad, Y}

\* the text of a stored binding that shadows a computed name
TextS == <<"s">>

WriteValues == {Str(TextA), Str(TextB), Array(<<TextA>>)}

\* Variables::default: the frame the store starts with (HISTORY_TIMESTAMP and
\* CDPATH stand for the defaults), and HOME set in the environment
DefaultFrame ==
    (<<"H", "I", "S", "T", "O", "R", "Y", "_", "T", "I", "M", "E", "S", "T", "A", "M", "P">>
        :> Str(<<"0">>))
    @@ (<<"C", "D", "P", "A", "T", "H">> :> Array(<<>>))

DefaultEnv == HOME :> <<"/", "h">>

\* the environments the shell is started in
Environments ==
    {DefaultEnv,
     DefaultEnv @@ (X :> TextE) @@ (PWD :> <<"/", "h", "/", "p", "/", "q">>),
     DefaultEnv @@ (SuperX :> TextE) @@ (PWD :> <<"/", "p", "/", "q">>)}

RECURSIVE CountBindings(_)
\* the bindings of a list of frames beyond the defaults of construction
CountBindings(frames) ==
    IF frames = <<>> THEN 0
    ELSE Cardinality((DOMAIN Head(frames)) \ (DOMAIN DefaultFrame))
         + CountBindings(Tail(frames))

NoOp == [kind |-> "init", name |-> <<>>, value |-> None, index |-> 0]

\* Shell::default: no function, no alias, status 0, nothing running
ShellDefault ==
    /\ functions = EmptyFrame
    /\ aliases = EmptyFrame
    /\ previous_status = 0
    /\ history = <<>>
    /\ stack = <<>>
    /\ commands = 0

------------------------------------------------------------------------------
(* The store's operations as actions *)

Init ==
    /\ scopes = <<DefaultFrame>>
    /\ detached = <<>>
    /\ env = DefaultEnv
    /\ op = NoOp
    /\ ret = None
    /\ pre = <<DefaultFrame>>
    /\ ShellDefault

Set(name, value) ==
    /\ scopes' = set(scopes, name, value)
    /\ op' = [NoOp EXCEPT !.kind = "set", !.name = name, !.value = value]
    /\ ret' = None
    /\ pre' = scopes
    /\ UNCHANGED <<detached, env>>
    /\ UNCHANGED shellVars

RemoveVariable(name) ==
    /\ scopes' = remove_variable(scopes, name).scopes
    /\ op' = [NoOp EXCEPT !.kind = "remove_variable", !.name = name]
    /\ ret' = remove_variable(scopes, name).ret
    /\ pre' = scopes
    /\ UNCHANGED <<detached, env>>
    /\ UNCHANGED shellVars

GetMut(name) ==
    /\ op' = [NoOp EXCEPT !.kind = "get_mut", !.name = name]
    /\ ret' = IF get_mut(scopes, name) = 0 THEN None
              ELSE Some(scopes[get_mut(scopes, name)][name])
    /\ pre' = scopes
    /\ UNCHANGED <<scopes, detached, env>>
    /\ UNCHANGED shellVars

GetRef(name) ==
    /\ op' = [NoOp EXCEPT !.kind = "get_ref", !.name = name]
    /\ ret' = get_ref(scopes, name)
    /\ pre' = scopes
    /\ UNCHANGED <<scopes, detached, env>>
    /\ UNCHANGED shellVars

GetStr(name) ==
    /\ op' = [NoOp EXCEPT !.kind = "get_str", !.name = name]
    /\ ret' = get_str(scopes, env, name)
    /\ pre' = scopes
    /\ UNCHANGED <<scopes, detached, env>>
    /\ UNCHANGED shellVars

NewScope(namespace) ==
    /\ Len(scopes) + Len(detached) < MaxDepth
    /\ scopes' = new_scope(scopes, namespace)
    /\ op' = [NoOp EXCEPT !.kind = "new_scope"]
    /\ ret' = None
    /\ pre' = scopes
    /\ UNCHANGED <<detached, env>>
    /\ UNCHANGED shellVars

PopScope ==
    /\ Len(scopes) > 1
    /\ scopes' = pop_scope(scopes)
    /\ op' = [NoOp EXCEPT !.kind = "pop_scope"]
    /\ ret' = None
    /\ pre' = scopes
    /\ UNCHANGED <<detached, env>>
    /\ UNCHANGED shellVars

PopScopes(index) ==
    /\ detached = <<>>
    /\ index < Len(scopes)
    /\ scopes' = pop_scopes(scopes, index).scopes
    /\ detached' = pop_scopes(scopes, index).ret
    /\ op' = [NoOp EXCEPT !.kind = "pop_scopes", !.index = index]
    /\ ret' = None
    /\ pre' = scopes
    /\ UNCHANGED env
    /\ UNCHANGED shellVars

AppendScopes ==
    /\ detached # <<>>
    /\ scopes' = append_scopes(scopes, detached)
    /\ detached' = <<>>
    /\ op' = [NoOp EXCEPT !.kind = "append_scopes"]
    /\ ret' = None
    /\ pre' = scopes
    /\ UNCHANGED env
    /\ UNCHANGED shellVars

Next ==
    \/ \E name \in WriteNames, value \in WriteValues :
          /\ CountBindings(set(scopes, name, value) \o detached) <= MaxBindings
          /\ Set(name, value)
    \/ \E name \in WriteNames : RemoveVariable(name)
    \/ \E name \in WriteNames : GetMut(name)
    \/ \E namespace \in BOOLEAN : NewScope(namespace)
    \/ PopScope
    \/ \E index \in 0..(MaxDepth - 1) : PopScopes(index)
    \/ AppendScopes

Spec == Init /\ [][Next]_vars

------------------------------------------------------------------------------
(* Lookups are functions of the store and the environment: this             *)
(* specification draws both and applies one lookup.                         *)

\* what one frame may hold under x
XFrames == {EmptyFrame} \cup {X :> v : v \in WriteValues}

XStacks == UNION {[1..d -> XFrames] : d \in 1..MaxDepth}

\* a stack, its outermost frame holding the defaults of construction, and at
\* most one binding under the literal name of a computed variable
LookupStores ==
    {[i \in 1..Len(st) |->
        (IF i = 1 THEN st[i] @@ DefaultFrame ELSE st[i])
        @@ (IF i = at THEN lit :> Str(TextS) ELSE EmptyFrame)] :
     st \in XStacks, at \in 0..MaxDepth, lit \in PriorityNames}

InitLookup ==
    /\ scopes \in LookupStores
    /\ detached = <<>>
    /\ env \in Environments
    /\ op = NoOp
    /\ ret = None
    /\ pre = scopes
    /\ ShellDefault

NextLookup ==
    \/ \E name \in LookupNames : op.kind = "init" /\ GetStr(name)
    \/ \E name \in ReadNames : op.kind = "init" /\ GetRef(name)

SpecLookup == InitLookup /\ [][NextLookup]_vars

\* the unqualified names written and then read back; the environment always
\* defines HOME
SetNames == {X, HOME}

\* one write on a drawn store, then a lookup of the name written
NextSetGet ==
    \/ \E name \in SetNames, value \in WriteValues : op.kind = "init" /\ Set(name, value)
    \/ op.kind = "set" /\ GetStr(op.name)

SpecSetGet == InitLookup /\ [][NextSetGet]_vars

------------------------------------------------------------------------------
(* MWD and SWD are functions of PWD and HOME: this specification draws the  *)
(* working directory and applies one lookup.                                *)

\* the most components of a working directory
MaxComponents == 3

\* the components of the working directories: h as in the home directory /h,
\* another name, a dot alone and a name that starts with a dot
Components == {<<"h">>, <<"p">>, <<".">>, <<".", "c">>}

\* the absolute path of the components
Path(components) ==
    concat([i \in 1..Len(components) |-> <<"/">> \o components[i]])

WorkingDirectories == {Path(cs) : cs \in SeqUpTo(Components, MaxComponents)}

\* environments with and without HOME, with and without PWD
DirectoryEnvironments ==
    {home @@ pwd :
        home \in {DefaultEnv, EmptyFrame},
        pwd \in {EmptyFrame} \cup {PWD :> d : d \in WorkingDirectories}}

InitDirectory ==
    /\ scopes \in {<<DefaultFrame>>, <<Bind(DefaultFrame, HOME, Str(<<"/", "p">>))>>}
    /\ detached = <<>>
    /\ env \in DirectoryEnvironments
    /\ op = NoOp
    /\ ret = None
    /\ pre = scopes
    /\ ShellDefault

NextDirectory ==
    \/ op.kind = "init" /\ GetStr(MWD)
    \/ op.kind = "init" /\ GetStr(SWD)

SpecDirectory == InitDirectory /\ [][NextDirectory]_vars

------------------------------------------------------------------------------
(* The shell (shell/mod.rs): statuses, statements and the store's string API *)

SUCCESS == 0
FAILURE == 1
NO_SUCH_COMMAND == 127

\* the deepest nesting of calls the model follows
MaxCallDepth == 10
\* the most statements of a function body
MaxBody == 2
\* the most command lines the shell reads
MaxCommands == 1

Digits == <<"0", "1", "2", "3", "4", "5", "6", "7", "8", "9">>

\* a rendering that keeps the last digit only
to_string_last_digit(n) == <<Digits[(n % 10) + 1]>>

RECURSIVE to_string(_)
\* i32::to_string of a status
to_string(n) ==
    IF n < 0 THEN <<"-">> \o to_string(0 - n)
    ELSE IF n < 10 THEN <<Digits[n + 1]>>
    ELSE to_string(n \div 10) \o <<Digits[(n % 10) + 1]>>

StatusVar == <<"?">>
RECORD_SUMMARY ==
    <<"R", "E", "C", "O", "R", "D", "_", "S", "U", "M", "M", "A", "R", "Y">>

\* Result::ok: the value of a success, nothing for an error
ok(result) == IF result.t = "Ok" THEN Some(result.v) ELSE None

\* Option::unwrap_or_default on a string
unwrap_or_default(option) == IF option.t = "Some" THEN option.v ELSE <<>>

\* Variables::get_var: the lookup as an Option
get_var(sc, e, name) == ok(get_str(sc, e, name))

\* Variables::get_var_or_empty: the lookup, the empty string when there is none
get_var_or_empty(sc, e, name) == unwrap_or_default(get_var(sc, e, name))

\* Variables::set_var: assign a string
set_var(sc, name, value) == set(sc, name, Str(value))

\* Variables::unset_var: remove
unset_var(sc, name) == remove_variable(sc, name).scopes

\* a job: args[1] is the command name itself
Job(args) == [command |-> Head(args), args |-> args]

Pipeline(jobs) == [jobs |-> jobs]

\* statements, in one record shape
Pipelines(ps) == [kind |-> "Pipelines", pipelines |-> ps, name |-> <<>>, value |-> <<>>]
Let(name, value) == [kind |-> "Let", pipelines |-> <<>>, name |-> name, value |-> value]
Drop(name) == [kind |-> "Drop", pipelines |-> <<>>, name |-> name, value |-> <<>>]
Other == [kind |-> "Other", pipelines |-> <<>>, name |-> <<>>, value |-> <<>>]

Function(args, statements) == [args |-> args, statements |-> statements]

\* the words that open a statement which is no pipeline
Keywords == {<<"i", "f">>}

\* the words of a text
words(text) == SelectNonEmpty(split(text, " "))

\* StatementSplitter: the statements of a line, separated by ;
StatementSplitter(text) ==
    SelectSeq(split(text, ";"), LAMBDA t : words(t) # <<>>)

\* parse: a statement that opens with a keyword is no pipeline; any other is
\* one pipeline, its jobs separated by |
parse(text) ==
    IF Head(words(text)) \in Keywords THEN Other
    ELSE IF /\ Len(words(text)) = 4
            /\ words(text)[1] = <<"l", "e", "t">>
            /\ words(text)[3] = <<"=">>
    THEN Let(words(text)[2], words(text)[4])
    ELSE LET jobs == SelectNonEmpty(split(words(text), <<"|">>))
         IN  Pipelines(<<Pipeline([i \in 1..Len(jobs) |-> Job(jobs[i])])>>)

\* Builtin::map: the builtins and the status each returns
Builtins == (<<"t">> :> SUCCESS) @@ (<<"n">> :> FAILURE)

\* the commands execute_pipeline can start
Resolvable == {<<"e">>, <<"l">>}

\* the exit codes a started process may end with
ExitCodes == {SUCCESS, 2}

\* execute_pipeline: the statuses the collaborator may return
execute_pipeline(pipeline) ==
    IF \E i \in 1..Len(pipeline.jobs) : pipeline.jobs[i].command \notin Resolvable
    THEN {NO_SUCH_COMMAND}
    ELSE ExitCodes

------------------------------------------------------------------------------
(* Shell::run_pipeline, one action per step, the calls in progress on a stack *)

\* a call of run_pipeline; entry, entry_status, ran, passed and summary
\* record, for the properties, the store and the status at the call, the
\* handlers run, the closing steps passed and what the summary step did
RunFrame(pipeline, noalias, sc) ==
    [kind |-> "run_pipeline", pc |-> "alias", pipeline |-> pipeline,
     noalias |-> noalias, exit_status |-> None, branched |-> FALSE,
     todo |-> <<>>, backup |-> EmptyFrame, statements |-> <<>>,
     entry |-> sc, ran |-> <<>>, summary |-> "none",
     entry_status |-> previous_status, passed |-> <<>>]

\* a call of execute_statements
ExecFrame(statements) ==
    [kind |-> "execute_statements", pc |-> "run", pipeline |-> Pipeline(<<>>),
     noalias |-> FALSE, exit_status |-> None, branched |-> FALSE,
     todo |-> <<>>, backup |-> EmptyFrame, statements |-> statements,
     entry |-> <<>>, ran |-> <<>>, summary |-> "none",
     entry_status |-> SUCCESS, passed |-> <<>>]

Top == stack[Len(stack)]

Running(kind, pc) == stack # <<>> /\ Top.kind = kind /\ Top.pc = pc

SetTop(frame) == [stack EXCEPT ![Len(stack)] = frame]

\* the alias text with the arguments of the job appended to it
alias_text(alias, job) == alias \o <<" ">> \o concat(Tail(job.args))

\* the statements of the expanded alias
alias_statements(text) ==
    LET parts == StatementSplitter(text)
    IN  [i \in 1..Len(parts) |-> parse(parts[i])]

\* an expansion that leaves alias resolution enabled
alias_recursion_resolves == FALSE

\* line 299: the noalias flag of the calls an alias expansion makes
alias_recursion_noalias == TRUE

\* an alias branch that leaves branched unset
branched_left_unset == FALSE

\* line 289: branched once the alias branch is entered
branched_after_alias == TRUE

\* a function branch that reports success
function_result_success == Some(SUCCESS)

\* line 334: what the function branch gives as exit_status
function_result == None

\* a test that any state of the store passes
summary_flag_always(sc, e) == TRUE

\* line 355: the test that the summary is wanted
summary_flag(sc, e) == get_var_or_empty(sc, e, RECORD_SUMMARY) = <<"1">>

\* an arity test that lets every call through
arity_unchecked(job, function) == TRUE

\* line 319: the arity test of the function branch
arity_matches(job, function) == Len(job.args) - 1 = Len(function.args)

RECURSIVE bind_args(_, _, _, _, _)
\* the loop that saves and binds each formal parameter
bind_args(sc, e, backup, names, values) ==
    IF names = <<>> \/ values = <<>> THEN [scopes |-> sc, backup |-> backup]
    ELSE bind_args(set_var(sc, Head(names), Head(values)), e,
                   Bind(backup, Head(names), get_var(sc, e, Head(names))),
                   Tail(names), Tail(values))

RECURSIVE restore_args(_, _, _)
\* the loop that replays variables_backup, in the order the map is iterated
restore_args(sc, backup, order) ==
    IF order = <<>> THEN sc
    ELSE LET name == Head(order)
             next == IF backup[name].t = "Some"
                     THEN set_var(sc, name, backup[name].v)
                     ELSE unset_var(sc, name)
         IN  restore_args(next, backup, Tail(order))

\* the orders in which a map's keys may be iterated
Orders(keys) ==
    {o \in [1..Cardinality(keys) -> keys] : \A i, j \in DOMAIN o : o[i] = o[j] => i = j}

\* on_command: the read loop hands one statement to execute_statements
OnCommand(statement) ==
    /\ stack = <<>>
    /\ stack' = <<ExecFrame(<<statement>>)>>
    /\ commands' = commands + 1
    /\ UNCHANGED <<functions, aliases, previous_status, history>>
    /\ UNCHANGED storeVars

\* execute_statements: run the next statement of the list
ExecuteStatement ==
    /\ Running("execute_statements", "run")
    /\ Top.statements # <<>>
    /\ Len(stack) < MaxCallDepth
    /\ LET statement == Head(Top.statements)
           rest == Tail(Top.statements)
       IN  IF statement.kind = "Let"
           THEN /\ scopes' = set_var(scopes, statement.name, statement.value)
                /\ stack' = SetTop([Top EXCEPT !.statements = rest])
           ELSE IF statement.kind = "Drop"
           THEN /\ scopes' = unset_var(scopes, statement.name)
                /\ stack' = SetTop([Top EXCEPT !.statements = rest])
           ELSE IF statement.kind = "Pipelines" /\ statement.pipelines # <<>>
           THEN /\ scopes' = scopes
                /\ stack' = Append(
                       SetTop([Top EXCEPT !.statements =
                           <<Pipelines(Tail(statement.pipelines))>> \o rest]),
                       RunFrame(Head(statement.pipelines), FALSE, scopes))
           ELSE /\ scopes' = scopes
                /\ stack' = SetTop([Top EXCEPT !.statements = rest])
    /\ UNCHANGED <<detached, env, op, ret, pre>>
    /\ UNCHANGED <<functions, aliases, previous_status, history, commands>>

\* execute_statements returns to its caller
ExecuteStatementsReturn ==
    /\ Running("execute_statements", "run")
    /\ Top.statements = <<>>
    /\ stack' = SubSeq(stack, 1, Len(stack) - 1)
    /\ UNCHANGED <<functions, aliases, previous_status, history, commands>>
    /\ UNCHANGED storeVars

\* lines 287-295: the lead command is an alias and alias resolution is on
AliasExpand ==
    /\ Running("run_pipeline", "alias")
    /\ ~Top.noalias
    /\ Top.pipeline.jobs[1].command \in DOMAIN aliases
    /\ stack' = SetTop([Top EXCEPT
           !.pc = "expand",
           !.branched = branched_after_alias,
           !.ran = Append(@, "alias"),
           !.todo = alias_statements(
               alias_text(aliases[Top.pipeline.jobs[1].command], Top.pipeline.jobs[1]))])
    /\ UNCHANGED <<functions, aliases, previous_status, history, commands>>
    /\ UNCHANGED storeVars

\* lines 287-288: no alias branch
AliasSkip ==
    /\ Running("run_pipeline", "alias")
    /\ Top.noalias \/ Top.pipeline.jobs[1].command \notin DOMAIN aliases
    /\ stack' = SetTop([Top EXCEPT !.pc = "dispatch"])
    /\ UNCHANGED <<functions, aliases, previous_status, history, commands>>
    /\ UNCHANGED storeVars

\* lines 296-308: the next statement of the expansion
AliasStatement ==
    /\ Running("run_pipeline", "expand")
    /\ Top.todo # <<>>
    /\ Len(stack) < MaxCallDepth
    /\ LET statement == Head(Top.todo)
           rest == Tail(Top.todo)
       IN  IF statement.kind = "Pipelines" /\ statement.pipelines # <<>>
           THEN stack' = Append(
                    SetTop([Top EXCEPT !.todo =
                        <<Pipelines(Tail(statement.pipelines))>> \o rest]),
                    RunFrame(Head(statement.pipelines), alias_recursion_noalias, scopes))
           ELSE IF statement.kind = "Pipelines"
           THEN stack' = SetTop([Top EXCEPT !.todo = rest])
           ELSE stack' = SetTop([Top EXCEPT !.todo = rest,
                                            !.exit_status = Some(FAILURE)])
    /\ UNCHANGED <<functions, aliases, previous_status, history, commands>>
    /\ UNCHANGED storeVars

\* line 312: the expansion is over; branched skips the dispatch
AliasDone ==
    /\ Running("run_pipeline", "expand")
    /\ Top.todo = <<>>
    /\ stack' = SetTop([Top EXCEPT !.pc = IF Top.branched THEN "summary" ELSE "dispatch"])
    /\ UNCHANGED <<functions, aliases, previous_status, history, commands>>
    /\ UNCHANGED storeVars

\* lines 314-316: a builtin of that name
DispatchBuiltin ==
    /\ Running("run_pipeline", "dispatch")
    /\ Top.pipeline.jobs[1].command \in DOMAIN Builtins
    /\ stack' = SetTop([Top EXCEPT
           !.pc = "summary",
           !.ran = Append(@, "builtin"),
           !.exit_status = Some(Builtins[Top.pipeline.jobs[1].command])])
    /\ UNCHANGED <<functions, aliases, previous_status, history, commands>>
    /\ UNCHANGED storeVars

\* lines 318-326: a function of that name, called with as many arguments as
\* it declares: save and bind the parameters, then run the body
DispatchFunction ==
    /\ Running("run_pipeline", "dispatch")
    /\ Top.pipeline.jobs[1].command \notin DOMAIN Builtins
    /\ Top.pipeline.jobs[1].command \in DOMAIN functions
    /\ Len(stack) < MaxCallDepth
    /\ LET job == Top.pipeline.jobs[1]
           function == functions[job.command]
           bound == bind_args(scopes, env, EmptyFrame, function.args, Tail(job.args))
       IN  /\ arity_matches(job, function)
           /\ scopes' = bound.scopes
           /\ stack' = Append(
                  SetTop([Top EXCEPT !.pc = "restore",
                                     !.ran = Append(@, "function"),
                                     !.backup = bound.backup]),
                  ExecFrame(function.statements))
    /\ UNCHANGED <<detached, env, op, ret, pre>>
    /\ UNCHANGED <<functions, aliases, previous_status, history, commands>>

\* lines 328-334: the body is over; replay variables_backup
FunctionRestore ==
    /\ Running("run_pipeline", "restore")
    /\ \E order \in Orders(DOMAIN Top.backup) :
           scopes' = restore_args(scopes, Top.backup, order)
    /\ stack' = SetTop([Top EXCEPT !.pc = "summary", !.exit_status = function_result])
    /\ UNCHANGED <<detached, env, op, ret, pre>>
    /\ UNCHANGED <<functions, aliases, previous_status, history, commands>>

\* lines 335-341: a function of that name, called with another number of arguments
DispatchArityMismatch ==
    /\ Running("run_pipeline", "dispatch")
    /\ Top.pipeline.jobs[1].command \notin DOMAIN Builtins
    /\ Top.pipeline.jobs[1].command \in DOMAIN functions
    /\ ~arity_matches(Top.pipeline.jobs[1], functions[Top.pipeline.jobs[1].command])
    /\ stack' = SetTop([Top EXCEPT
           !.pc = "summary",
           !.ran = Append(@, "arity"),
           !.exit_status = Some(NO_SUCH_COMMAND)])
    /\ UNCHANGED <<functions, aliases, previous_status, history, commands>>
    /\ UNCHANGED storeVars

\* lines 343-345: neither: the pipeline goes to execute_pipeline
DispatchExternal ==
    /\ Running("run_pipeline", "dispatch")
    /\ Top.pipeline.jobs[1].command \notin DOMAIN Builtins
    /\ Top.pipeline.jobs[1].command \notin DOMAIN functions
    /\ \E code \in execute_pipeline(Top.pipeline) :
           stack' = SetTop([Top EXCEPT
               !.pc = "summary",
               !.ran = Append(@, "external"),
               !.exit_status = Some(code)])
    /\ UNCHANGED <<functions, aliases, previous_status, history, commands>>
    /\ UNCHANGED storeVars

\* lines 348-362: the elapsed time is pushed to the history when RECORD_SUMMARY
\* is "1"; the clock may fail to give an elapsed time and the push may fail
RecordSummary ==
    /\ Running("run_pipeline", "summary")
    /\ \E elapsed_ok \in BOOLEAN, push_ok \in BOOLEAN :
           LET flag == summary_flag(scopes, env)
               did == IF ~elapsed_ok THEN "no_elapsed"
                      ELSE IF ~flag THEN "flag_off"
                      ELSE IF push_ok THEN "pushed" ELSE "push_failed"
           IN  /\ history' = IF did = "pushed" THEN Append(history, "#summary#")
                             ELSE history
               /\ stack' = SetTop([Top EXCEPT !.pc = "status", !.summary = did,
                                               !.passed = Append(@, "history")])
    /\ UNCHANGED <<functions, aliases, previous_status, commands>>
    /\ UNCHANGED storeVars

\* lines 364-369: a status, when there is one, goes to ? and previous_status
StatusUpdate ==
    /\ Running("run_pipeline", "status")
    /\ IF Top.exit_status.t = "Some"
       THEN /\ scopes' = set_var(scopes, StatusVar, to_string(Top.exit_status.v))
            /\ previous_status' = Top.exit_status.v
       ELSE UNCHANGED <<scopes, previous_status>>
    /\ stack' = SetTop([Top EXCEPT !.pc = "done", !.passed = Append(@, "status")])
    /\ UNCHANGED <<detached, env, op, ret, pre>>
    /\ UNCHANGED <<functions, aliases, history, commands>>

\* run_pipeline returns exit_status: the alias loop of a calling run_pipeline
\* keeps it, execute_statements drops it
Return ==
    /\ Running("run_pipeline", "done")
    /\ LET caller == stack[Len(stack) - 1]
           below == SubSeq(stack, 1, Len(stack) - 2)
       IN  stack' = IF caller.kind = "run_pipeline"
                    THEN Append(below, [caller EXCEPT !.exit_status = Top.exit_status])
                    ELSE Append(below, caller)
    /\ UNCHANGED <<functions, aliases, previous_status, history, commands>>
    /\ UNCHANGED storeVars

------------------------------------------------------------------------------
(* The shell after its init file: functions and aliases defined, commands read *)

F == <<"f">>
G == <<"g">>

Call(args) == Pipelines(<<Pipeline(<<Job(args)>>)>>)

\* the statements a function body is made of
BodyStatements == {Let(X, TextB), Drop(X), Call(<<G, TextA>>)}

\* the formal-parameter lists of f
ParameterLists == {<<X>>, <<X, Y>>, <<X, X>>}

\* fn f <params> ... end with every body, fn g x; let x = c; n; end, and a
\* function n that bears the name of a builtin
FunctionTables ==
    {(F :> Function(params, body))
        @@ (G :> Function(<<X>>, <<Let(X, <<"c">>), Call(<<<<"n">>>>)>>))
        @@ (<<"n">> :> Function(<<>>, <<Let(X, <<"c">>)>>)) :
        params \in ParameterLists, body \in SeqUpTo(BodyStatements, MaxBody)}

\* alias l = "l", alias n = "n", alias g = "g": each names itself; a = "f";
\* k and m expand to a statement that is no pipeline
AliasTable ==
    (<<"l">> :> <<"l">>) @@ (<<"n">> :> <<"n">>) @@ (G :> G) @@ (<<"a">> :> F)
    @@ (<<"k">> :> <<"i", "f">>) @@ (<<"m">> :> <<"i", "f", ";", "t">>)

SelfAliases == {name \in DOMAIN AliasTable : Head(words(AliasTable[name])) = name}

\* the command lines the user types
Lines ==
    {<<"f", " ", "a">>, <<"f", " ", "a", " ", "b">>, <<"f">>,
     <<"g", " ", "a">>, <<"g">>, <<"a", " ", "b">>, <<"a", " ", "b", " ", "c">>,
     <<"t">>, <<"n">>, <<"e">>, <<"l">>, <<"l", " ", "a">>, <<"z">>,
     <<"k">>, <<"m">>, <<"t", " ", "|", " ", "z">>}

\* the statements the user's lines parse to
Commands == {parse(line) : line \in Lines}

\* the store and the environment the init file leaves: x unset, x set,
\* x known to the environment only, and RECORD_SUMMARY switched on
InitStores ==
    {[scopes |-> <<DefaultFrame>>, env |-> DefaultEnv],
     [scopes |-> <<Bind(DefaultFrame, X, Str(TextA))>>, env |-> DefaultEnv],
     [scopes |-> <<DefaultFrame>>, env |-> DefaultEnv @@ (X :> TextE)],
     [scopes |-> <<Bind(Bind(DefaultFrame, X, Str(TextA)), RECORD_SUMMARY, Str(<<"1">>))>>,
      env |-> DefaultEnv]}

InitShell ==
    /\ \E store \in InitStores : scopes = store.scopes /\ env = store.env
    /\ detached = <<>>
    /\ op = NoOp
    /\ ret = None
    /\ pre = scopes
    /\ functions \in FunctionTables
    /\ aliases = AliasTable
    /\ previous_status = SUCCESS
    /\ history = <<>>
    /\ stack = <<>>
    /\ commands = 0

\* the steps the interpreter takes on its own
StepShell ==
    \/ ExecuteStatement
    \/ ExecuteStatementsReturn
    \/ AliasExpand
    \/ AliasSkip
    \/ AliasStatement
    \/ AliasDone
    \/ DispatchBuiltin
    \/ DispatchFunction
    \/ FunctionRestore
    \/ DispatchArityMismatch
    \/ DispatchExternal
    \/ RecordSummary
    \/ StatusUpdate
    \/ Return

NextShell ==
    \/ \E statement \in Commands : commands < MaxCommands /\ OnCommand(statement)
    \/ StepShell

SpecShell == InitShell /\ [][NextShell]_vars

\* one program: fn f x; let x = b; g a; end, beside g
InitOneProgram ==
    /\ InitShell
    /\ functions[F] = Function(<<X>>, <<Let(X, TextB), Call(<<G, TextA>>)>>)

\* the interpreter never stops in the middle of a command
SpecShellFair == InitOneProgram /\ [][NextShell]_vars /\ WF_vars(StepShell)

------------------------------------------------------------------------------
(* Shell::execute (shell/mod.rs): the interactive read loop *)

OLDPWD == <<"O", "L", "D", "P", "W", "D">>

\* what stands for a directory that cannot be named
UnknownDirectory == <<"?">>

\* env::set_var
set_env(e, name, value) ==
    [n \in (DOMAIN e) \cup {name} |-> IF n = name THEN value ELSE e[n]]

\* a path: its text when it is valid Unicode
PathBuf(text) == [unicode |-> TRUE, text |-> text]
NotUnicode == [unicode |-> FALSE, text |-> <<>>]

\* Path::to_str
to_str(path) == IF path.unicode THEN Some(path.text) ELSE None

\* lines 209-224: PWD and OLDPWD of the process environment follow the
\* current directory
update_variables(sc, e, current_dir) ==
    IF current_dir.t # "Ok" THEN set_env(e, PWD, UnknownDirectory)
    ELSE LET pwd == get_var_or_empty(sc, e, PWD)
             text == to_str(current_dir.v)
             current == IF text.t = "Some" THEN text.v ELSE UnknownDirectory
         IN  IF pwd # current
             THEN set_env(set_env(e, OLDPWD, pwd), PWD, current)
             ELSE e

RECURSIVE trim_start(_)
trim_start(text) ==
    IF text # <<>> /\ Head(text) = " " THEN trim_start(Tail(text)) ELSE text

RECURSIVE trim_end(_)
trim_end(text) ==
    IF text # <<>> /\ text[Len(text)] = " "
    THEN trim_end(SubSeq(text, 1, Len(text) - 1))
    ELSE text

\* str::trim
trim(text) == trim_end(trim_start(text))

\* the loop of execute; statements holds the command line in hand
LoopFrame == [ExecFrame(<<>>) EXCEPT !.kind = "execute", !.pc = "readln"]

\* lines 184-190: a line is read and trimmed; one that is not empty goes to
\* on_command
Readln(line) ==
    /\ Running("execute", "readln")
    /\ LET command == trim(line)
       IN  stack' = IF command = <<>>
                    THEN SetTop([Top EXCEPT !.pc = "update"])
                    ELSE Append(SetTop([Top EXCEPT !.pc = "history",
                                                   !.statements = <<command>>]),
                                ExecFrame(<<parse(command)>>))
    /\ commands' = commands + 1
    /\ UNCHANGED <<functions, aliases, previous_status, history>>
    /\ UNCHANGED storeVars

\* line 48: flow_control starts at its default, no block open; no code of
\* the loop or of run_pipeline opens one
flow_control_level == 0

\* line 193: the test that sends the command to the history, on
\* previous_status as the command left it
history_test(status, level) == status # NO_SUCH_COMMAND \/ level > 0

\* lines 192-200: the command goes to the history unless previous_status
\* says no such command; a failed push is reported only. summary and
\* statements keep, for the properties, what the step did and the command
MarkHistory ==
    /\ Running("execute", "history")
    /\ \E push_ok \in BOOLEAN :
           LET did == IF ~history_test(previous_status, flow_control_level)
                      THEN "skipped"
                      ELSE IF push_ok THEN "pushed" ELSE "push_failed"
           IN  /\ history' = IF did = "pushed"
                             THEN Append(history, Top.statements[1])
                             ELSE history
               /\ stack' = SetTop([Top EXCEPT !.pc = "update", !.summary = did])
    /\ UNCHANGED <<functions, aliases, previous_status, commands>>
    /\ UNCHANGED storeVars

\* line 202: update_variables, with what env::current_dir answers
UpdateVariables(current_dir) ==
    /\ Running("execute", "update")
    /\ env' = update_variables(scopes, env, current_dir)
    /\ op' = [NoOp EXCEPT !.kind = "update_variables", !.value = current_dir]
    /\ stack' = SetTop([Top EXCEPT !.pc = "readln"])
    /\ UNCHANGED <<scopes, detached, ret, pre>>
    /\ UNCHANGED <<functions, aliases, previous_status, history, commands>>

\* the directories the process may be in
Directories == {<<"/", "h">>, <<"/", "p">>}

\* the answers of env::current_dir: a path, a path that is no Unicode, an error
CurrentDirs ==
    {Ok(PathBuf(d)) : d \in Directories} \cup {Ok(NotUnicode), Err("io", <<>>)}

\* let PWD = /p
LetPwd == <<"l", "e", "t", " ">> \o PWD \o <<" ", "=", " ", "/", "p">>

\* let x = a, with blanks around it
LetX == <<" ", "l", "e", "t", " ">> \o X \o <<" ", "=", " ">> \o TextA \o <<" ">>

\* the lines typed at the prompt: nothing, a blank, assignments, a builtin,
\* a command that does not exist, calls of f with and without its argument,
\* and an alias of f
PromptLines ==
    {<<>>, <<" ">>, LetPwd, LetX, <<"t">>, <<"z">>, <<"f", " ", "a">>, <<"f">>,
     <<"a", " ", "b">>}

\* the function the init file defines: f x assigns x
PromptFunctions == F :> Function(<<X>>, <<Let(X, TextB)>>)

\* the most lines read at the prompt
MaxPrompts == 2

\* the shell at its first prompt: started in /h, with or without PWD
InitPrompt ==
    /\ scopes = <<DefaultFrame>>
    /\ env \in {DefaultEnv, DefaultEnv @@ (PWD :> <<"/", "h">>)}
    /\ detached = <<>>
    /\ op = NoOp
    /\ ret = None
    /\ pre = scopes
    /\ functions = PromptFunctions
    /\ aliases = AliasTable
    /\ previous_status = SUCCESS
    /\ history = <<>>
    /\ stack = <<LoopFrame>>
    /\ commands = 0

\* the read loop; on_command is execute_statements on the parsed line
NextPrompt ==
    \/ \E line \in PromptLines : commands < MaxPrompts /\ Readln(line)
    \/ StepShell
    \/ MarkHistory
    \/ \E current_dir \in CurrentDirs : UpdateVariables(current_dir)

SpecPrompt == InitPrompt /\ [][NextPrompt]_vars

------------------------------------------------------------------------------
(* IonCompleter::on_event (binary/completer.rs): the completion request *)

\* the width of the request's index: `as u16`
U16 == 65536

\* the most words of a buffer
MaxWords == 3

\* CursorPosition: i is the word of InWord and of the edges, l and r are the
\* words to the left and to the right of InSpace
InWord(i) == [t |-> "InWord", i |-> i, l |-> None, r |-> None]
OnWordLeftEdge(i) == [t |-> "OnWordLeftEdge", i |-> i, l |-> None, r |-> None]
OnWordRightEdge(i) == [t |-> "OnWordRightEdge", i |-> i, l |-> None, r |-> None]
InSpace(l, r) == [t |-> "InSpace", i |-> 0, l |-> l, r |-> r]

\* CompletionType
Nothing == [t |-> "Nothing", argv |-> <<>>, word |-> 0]
Command == [t |-> "Command", argv |-> <<>>, word |-> 0]
VariableAndFiles(argv, word) == [t |-> "VariableAndFiles", argv |-> argv, word |-> word]

\* lines 195-197 and 216-220: the word ends a statement
ends_with_separator(word) ==
    word # <<>> /\ word[Len(word)] \in {"|", "&", ";"}

RECURSIVE incomplete_statement(_)
\* lines 191-199: the words from the end of the buffer back to the first one
\* that ends a statement, in the order of the buffer
incomplete_statement(word_list) ==
    IF word_list = <<>> \/ ends_with_separator(word_list[Len(word_list)]) THEN <<>>
    ELSE Append(incomplete_statement(SubSeq(word_list, 1, Len(word_list) - 1)),
                word_list[Len(word_list)])

\* usize subtraction, then `as u16`: a build with overflow checks panics on
\* a negative difference, a build without them wraps
usize_sub_as_u16(a, b, overflow_checks) ==
    IF a >= b THEN Ok((a - b) % U16)
    ELSE IF overflow_checks THEN Panic
    ELSE Ok((a - b) % U16)

\* lines 187-206: the closure that builds the request
variables(word_list, index, append, overflow_checks) ==
    LET initial_len == Len(word_list)
        kept == incomplete_statement(word_list)
        argv == IF append THEN Append(kept, <<>>) ELSE kept
        len_diff == initial_len + (IF append THEN 1 ELSE 0) - Len(argv)
        word == usize_sub_as_u16(index, len_diff, overflow_checks)
    IN  IF word.t = "Panic" THEN Panic
        ELSE VariableAndFiles(argv, word.v)

\* lines 208-234: the completion chosen for the cursor position; word
\* indexes are zero-based as in the source
completion_for(word_list, pos, overflow_checks) ==
    IF word_list = <<>> THEN Nothing
    ELSE IF \/ pos.t \in {"InWord", "OnWordRightEdge"} /\ pos.i = 0
            \/ pos.t = "InSpace" /\ pos.l = None
    THEN Command
    ELSE IF pos.t = "OnWordRightEdge"
    THEN IF pos.i <= Len(word_list) /\ ends_with_separator(word_list[pos.i])
         THEN Command
         ELSE variables(word_list, pos.i, FALSE, overflow_checks)
    ELSE IF pos.t \in {"InWord", "OnWordLeftEdge"}
    THEN variables(word_list, pos.i, FALSE, overflow_checks)
    ELSE IF pos.r # None
    THEN variables(word_list, pos.r.v, FALSE, overflow_checks)
    ELSE variables(word_list, pos.l.v + 1, TRUE, overflow_checks)

\* the words a buffer is made of
BufferWords == {<<"l", "s">>, <<"x">>, <<"|">>, <<"x", ";">>}

Buffers == SeqUpTo(BufferWords, MaxWords)

\* the cursor positions of a buffer of these words: on an edge of a word,
\* inside a word of two characters or more, before the first word, between
\* two words, after the last word
CursorPositions(word_list) ==
    IF word_list = <<>> THEN {InSpace(None, None)}
    ELSE LET n == Len(word_list)
         IN  {OnWordLeftEdge(i) : i \in 0..(n - 1)}
             \cup {OnWordRightEdge(i) : i \in 0..(n - 1)}
             \cup {InWord(i) : i \in {j \in 0..(n - 1) : Len(word_list[j + 1]) >= 2}}
             \cup {InSpace(None, Some(0)), InSpace(Some(n - 1), None)}
             \cup {InSpace(Some(i - 1), Some(i)) : i \in 1..(n - 1)}

\* IonCompleter::new: no completion chosen yet
InitCompleter ==
    /\ scopes = <<DefaultFrame>>
    /\ detached = <<>>
    /\ env = DefaultEnv
    /\ op = NoOp
    /\ ret = Nothing
    /\ pre = scopes
    /\ ShellDefault

\* lines 184-236: an event of the editor; only BeforeComplete chooses a
\* completion. op records the buffer and the cursor, ret is self.completion;
\* one event is followed from each construction
OnEvent(before_complete, word_list, pos, overflow_checks) ==
    /\ op.kind = "init"
    /\ op' = [NoOp EXCEPT !.kind = IF before_complete THEN "BeforeComplete"
                                    ELSE "AfterComplete",
                          !.name = word_list, !.value = pos]
    /\ ret' = IF before_complete THEN completion_for(word_list, pos, overflow_checks)
              ELSE ret
    /\ UNCHANGED <<scopes, detached, env, pre>>
    /\ UNCHANGED shellVars

NextCompleter ==
    \E before_complete \in BOOLEAN, word_list \in Buffers, overflow_checks \in BOOLEAN :
        \E pos \in CursorPositions(word_list) :
            OnEvent(before_complete, word_list, pos, overflow_checks)

SpecCompleter == InitCompleter /\ [][NextCompleter]_vars

------------------------------------------------------------------------------
(* The status builtin: a function of its arguments, of the arguments of the *)
(* process and of the shell's options.                                      *)

StatusName == <<"s", "t", "a", "t", "u", "s">>
HelpFlag == <<"-", "-", "h", "e", "l", "p">>
IsLoginFlag == <<"-", "-", "i", "s", "-", "l", "o", "g", "i", "n">>
IsInteractiveFlag ==
    <<"-", "-", "i", "s", "-", "i", "n", "t", "e", "r", "a", "c", "t", "i", "v", "e">>
CurrentFilenameFlag ==
    <<"-", "-", "c", "u", "r", "r", "e", "n", "t", "-", "f", "i", "l", "e", "n", "a", "m", "e">>

\* lines 6-9: no flag seen
NoFlags ==
    [t |-> "Flags", help |-> FALSE, login_shell |-> FALSE, interactive |-> FALSE,
     filename |-> FALSE]

\* lines 23-29: the flag a short option stands for
short_flag(flags, character) ==
    IF character = "h" THEN [flags EXCEPT !.help = TRUE]
    ELSE IF character = "l" THEN [flags EXCEPT !.login_shell = TRUE]
    ELSE IF character = "i" THEN [flags EXCEPT !.interactive = TRUE]
    ELSE IF character = "f" THEN [flags EXCEPT !.filename = TRUE]
    ELSE flags

RECURSIVE status_flags(_, _)
\* lines 15-33: the loop over the arguments; a dash alone has no second
\* character to unwrap
status_flags(args, flags) ==
    IF args = <<>> THEN flags
    ELSE LET arg == Head(args)
             rest == Tail(args)
         IN  IF arg = HelpFlag THEN status_flags(rest, [flags EXCEPT !.help = TRUE])
             ELSE IF arg = IsLoginFlag
             THEN status_flags(rest, [flags EXCEPT !.login_shell = TRUE])
             ELSE IF arg = IsInteractiveFlag
             THEN status_flags(rest, [flags EXCEPT !.interactive = TRUE])
             ELSE IF arg = CurrentFilenameFlag
             THEN status_flags(rest, [flags EXCEPT !.filename = TRUE])
             ELSE IF starts_with(arg, <<"-">>)
             THEN IF Len(arg) < 2 THEN Panic
                  ELSE status_flags(rest, short_flag(flags, arg[2]))
             ELSE status_flags(rest, flags)

\* what a call gives: the Result and the lines printed
StatusResult(result, stdout) == [t |-> result.t, result |-> result, stdout |-> stdout]

\* lines 5-70: status; process_args is env::args()
status(args, process_args, is_background_shell) ==
    LET is_login == Head(Head(process_args)) = "-"
        count == Len(args)
    IN  IF count = 0
        THEN LET flags == status_flags(args, NoFlags)
                 last_sa == process_args[Len(process_args)]
             IN  IF flags = Panic THEN Panic
                 ELSE IF flags.login_shell /\ ~is_login
                 THEN StatusResult(Err("String", <<>>), <<>>)
                 ELSE IF flags.interactive /\ is_background_shell
                 THEN StatusResult(Err("String", <<>>), <<>>)
                 ELSE StatusResult(Ok(<<>>),
                          (IF ~flags.filename THEN <<>>
                           ELSE IF ends_with(last_sa, <<"i", "o", "n">>)
                           THEN <<"stdio">> ELSE <<last_sa>>)
                          \o (IF flags.help THEN <<"MAN_STATUS">> ELSE <<>>))
        ELSE IF count = 1
        THEN StatusResult(Ok(<<>>),
                 <<IF is_login THEN "This is a login shell"
                   ELSE "This is not a login shell">>)
        ELSE StatusResult(Err("String", "status takes one argument\n"), <<>>)

\* the most words after the command name
MaxFlags == 2

\* the words typed after status
FlagWords == {IsLoginFlag, <<"-", "l">>, IsInteractiveFlag, <<"-", "i">>, <<"-">>}

\* mod.rs line 315: the builtin gets the arguments of the job, the name first
StatusArgs == {<<StatusName>> \o flags : flags \in SeqUpTo(FlagWords, MaxFlags)}

\* env::args(): ion, ion started as a login shell, ion on a script
ProcessArgs ==
    {<<<<"i", "o", "n">>>>, <<<<"-", "i", "o", "n">>>>,
     <<<<"i", "o", "n">>, <<"s">>>>}

\* one call of the builtin; it reads the options of the shell and writes
\* nothing
Status(args, process_args, is_background_shell) ==
    /\ op.kind = "init"
    /\ op' = [NoOp EXCEPT !.kind = "status", !.name = args,
                          !.value = [process_args |-> process_args,
                                     is_background_shell |-> is_background_shell]]
    /\ ret' = status(args, process_args, is_background_shell)
    /\ UNCHANGED <<scopes, detached, env, pre>>
    /\ UNCHANGED shellVars

InitStatus ==
    /\ \E store \in InitStores : scopes = store.scopes /\ env = store.env
    /\ detached = <<>>
    /\ op = NoOp
    /\ ret = None
    /\ pre = scopes
    /\ ShellDefault

NextStatus ==
    \E args \in StatusArgs, process_args \in ProcessArgs,
       is_background_shell \in BOOLEAN :
        Status(args, process_args, is_background_shell)

SpecStatus == InitStatus /\ [][NextStatus]_vars

------------------------------------------------------------------------------
(* escape and unescape of the completer, on the bytes of a file name *)

\* lines 30-31 and 56-57: the bytes that are escaped
Special ==
    {"(", ")", "[", "]", "&", "$", "@", "{", "}", "<", ">", ";", "\"", "'", "#",
     "^", "*", " "}

RECURSIVE unescape_from(_, _)
\* lines 28-44: the loop of unescape; check says the byte before was a
\* backslash that is still to be answered
unescape_from(input, check) ==
    IF input = <<>> THEN <<>>
    ELSE LET character == Head(input)
             rest == Tail(input)
         IN  IF character = "\\" /\ ~check THEN unescape_from(rest, TRUE)
             ELSE IF character \in Special /\ check
             THEN <<character>> \o unescape_from(rest, FALSE)
             ELSE IF check THEN <<"\\", character>> \o unescape_from(rest, FALSE)
             ELSE <<character>> \o unescape_from(rest, FALSE)

\* lines 25-46
unescape(input) == unescape_from(input, FALSE)

RECURSIVE escape(_)
\* lines 52-63
escape(input) ==
    IF input = <<>> THEN <<>>
    ELSE (IF Head(input) \in Special THEN <<"\\">> ELSE <<>>)
         \o <<Head(input)>> \o escape(Tail(input))

\* the most bytes of a file name
MaxName == 3

\* the bytes of the file names: a letter, two of the special bytes and the
\* backslash
NameBytes == {"a", " ", ";", "\\"}

FileNames == SeqUpTo(NameBytes, MaxName)

\* line 373: a completion is escaped before it goes to the line
Escape(name) ==
    /\ op.kind = "init"
    /\ op' = [NoOp EXCEPT !.kind = "escape", !.name = name]
    /\ ret' = escape(name)
    /\ UNCHANGED <<scopes, detached, env, pre>>
    /\ UNCHANGED shellVars

\* line 327: the word on the line is unescaped before it is completed again
Unescape ==
    /\ op.kind = "escape"
    /\ op' = [op EXCEPT !.kind = "unescape", !.value = ret]
    /\ ret' = unescape(ret)
    /\ UNCHANGED <<scopes, detached, env, pre>>
    /\ UNCHANGED shellVars

InitEscape ==
    /\ scopes = <<DefaultFrame>>
    /\ env = DefaultEnv
    /\ detached = <<>>
    /\ op = NoOp
    /\ ret = None
    /\ pre = scopes
    /\ ShellDefault

NextEscape ==
    \/ \E name \in FileNames : Escape(name)
    \/ Unescape

SpecEscape == InitEscape /\ [][NextEscape]_vars

------------------------------------------------------------------------------
(* Properties of the variable store *)

Qualified(name) == starts_with(name, SUPER_NS) \/ starts_with(name, GLOBAL_NS)

\* the frames other than frame i are the same in both stacks
SameExcept(a, b, i) ==
    /\ Len(a) = Len(b)
    /\ \A j \in 1..Len(a) : j # i => a[j] = b[j]

\* frame g is frame f with the one name rebound to the value
Rebound(f, g, name, value) ==
    /\ DOMAIN g = (DOMAIN f) \cup {name}
    /\ g[name] = value
    /\ \A n \in (DOMAIN f) \ {name} : g[n] = f[n]

\* frame g is frame f without the name
Dropped(f, g, name) ==
    /\ DOMAIN g = (DOMAIN f) \ {name}
    /\ \A n \in DOMAIN g : g[n] = f[n]

\* C4: Variables::set with a name that starts with global:: or super:: is a
\* no-op: no frame gains, loses or changes a binding, and an unqualified read
\* of the name afterwards returns what it returned before the write.
C4_SetQualifiedIsNoOp ==
    (op.kind = "set" /\ Qualified(op.name)) =>
        /\ scopes = pre
        /\ get_ref(scopes, X) = get_ref(pre, X)

\* a qualified set has run on a store that held no binding under that text
C4_Witness ==
    /\ op.kind = "set"
    /\ op.name = GlobalX
    /\ Binding(pre, GlobalX) = {}

\* C5: remove_variable and get_mut with a name that starts with global:: or
\* super:: return None and leave every frame unchanged.
C5_QualifiedRemoveAndGetMutAreNoOps ==
    (op.kind \in {"remove_variable", "get_mut"} /\ Qualified(op.name)) =>
        /\ ret = None
        /\ scopes = pre

\* a qualified remove has run on a store that binds that very text
C5_Witness ==
    /\ op.kind = "remove_variable"
    /\ Qualified(op.name)
    /\ Binding(pre, op.name) # {}

\* C8: Variables::set on an unqualified name overwrites the binding in the
\* innermost frame that already binds the name and changes no other frame;
\* when no frame binds it, the binding is created in the current frame only.
C8_SetOverwritesWhereFound ==
    (op.kind = "set" /\ ~Qualified(op.name)) =>
        LET at == IF Binding(pre, op.name) = {} THEN Len(pre)
                  ELSE Innermost(Binding(pre, op.name))
        IN  /\ SameExcept(pre, scopes, at)
            /\ Rebound(pre[at], scopes[at], op.name, op.value)

\* a set has overwritten a binding that two frames below the current one hold
C8_Witness ==
    /\ op.kind = "set"
    /\ op.name = X
    /\ Cardinality(Binding(pre, X)) = 2
    /\ Innermost(Binding(pre, X)) < Len(pre)
    /\ pre[Innermost(Binding(pre, X))][X] # op.value

\* C9: remove_variable on an unqualified name deletes the binding from the
\* first frame, innermost to outermost, that holds the name, returns the
\* removed value and leaves every other frame unchanged; when no frame binds
\* the name it returns None and changes nothing.
C9_RemoveFromFirstFrame ==
    (op.kind = "remove_variable" /\ ~Qualified(op.name)) =>
        IF Binding(pre, op.name) = {}
        THEN ret = None /\ scopes = pre
        ELSE LET at == Innermost(Binding(pre, op.name))
             IN  /\ ret = Some(pre[at][op.name])
                 /\ SameExcept(pre, scopes, at)
                 /\ Dropped(pre[at], scopes[at], op.name)

\* a remove has run where an outer frame binds the name as well, to another value
C9_Witness ==
    /\ op.kind = "remove_variable"
    /\ op.name = X
    /\ Cardinality(Binding(pre, X)) = 2
    /\ \E i \in Binding(pre, X) : Some(pre[i][X]) # ret
    /\ Binding(scopes, X) # {}

------------------------------------------------------------------------------
(* Properties of the lookups *)

\* the name is bound, to a string, in the outermost frame and nowhere else
OnlyOutermostStr(sc, name) ==
    /\ Binding(sc, name) = {1}
    /\ sc[1][name].t = "Str"

\* the stack without any binding under the literal name
Purge(sc, name) == [i \in 1..Len(sc) |-> Unbind(sc[i], name)]

C7_GlobalResolvesInOutermost ==
    (op.kind = "get_ref" /\ op.name = GlobalX) =>
        ret = IF Binds(pre[1], X) THEN Some(pre[1][X]) ELSE None

\* global::x has been looked up where an inner frame binds x to another value
C7_Witness ==
    /\ op.kind = "get_ref"
    /\ op.name = GlobalX
    /\ Binds(pre[1], X)
    /\ \E i \in 2..Len(pre) : Binds(pre[i], X) /\ pre[i][X] # pre[1][X]
    /\ ret = Some(pre[1][X])

\* C10: in get_str the pseudo-variables MWD and SWD and the namespaces
\* color/c, hex/x and env take priority over stored bindings: the result is
\* the one computed for a store without a binding under that literal name,
\* and never the stored text.
C10_ComputedNamesTakePriority ==
    (op.kind = "get_str" /\ op.name \in PriorityNames) =>
        /\ ret = get_str(Purge(pre, op.name), env, op.name)
        /\ \A i \in Binding(pre, op.name) : ret # Ok(pre[i][op.name].v)

\* MWD has been looked up while a frame binds the literal name MWD
C10_Witness ==
    /\ op.kind = "get_str"
    /\ op.name = MWD
    /\ Binding(pre, MWD) # {}
    /\ ret.t = "Ok"

\* the text before the first :: of a name that has one
Prefix(name) == slice_to(name, find(name, SEP))

\* the text after the first :: of a name that has one
AfterPrefix(name) == slice_from(name, find(name, SEP) + 2)

\* the namespaces get_str knows
KnownNamespaces ==
    {<<"c">>, <<"c", "o", "l", "o", "r">>, <<"x">>, <<"h", "e", "x">>,
     <<"e", "n", "v">>, <<"s", "u", "p", "e", "r">>, <<"g", "l", "o", "b", "a", "l">>}

\* C11: a lookup of p::rest, p being none of c, color, x, hex, env, super and
\* global, fails with UnsupportedNamespace carrying the prefix p.
C11_UnsupportedNamespaceCarriesPrefix ==
    (/\ op.kind = "get_str"
     /\ op.name \notin {MWD, SWD}
     /\ find(op.name, SEP) # -1
     /\ Prefix(op.name) \notin KnownNamespaces)
    => ret = Err("UnsupportedNamespace", Prefix(op.name))

\* foo::x has been looked up and the lookup has failed
C11_Witness ==
    /\ op.kind = "get_str"
    /\ op.name = NsBad
    /\ ret.t = "Err"
    /\ ret.kind = "UnsupportedNamespace"

RECURSIVE HexValue(_)
\* the number a text of hex digits denotes, most significant digit first
HexValue(text) ==
    IF text = <<>> THEN 0
    ELSE 16 * HexValue(SubSeq(text, 1, Len(text) - 1)) + HexDigits[text[Len(text)]]

\* the text is a hex literal of a byte
IsByte(text) ==
    /\ text # <<>>
    /\ \A i \in 1..Len(text) : text[i] \in DOMAIN HexDigits
    /\ HexValue(text) <= 255

\* C12: a lookup in the hex or x namespace returns the one-character string
\* whose code is the value of the literal when the literal is a byte, and
\* fails with InvalidHex carrying the literal and a cause otherwise; a lookup
\* in the env namespace returns the environment's value of the name and fails
\* with UnknownEnv carrying the name when the environment has none.
C12_HexAndEnvNamespaces ==
    (op.kind = "get_str" /\ op.name \notin {MWD, SWD} /\ find(op.name, SEP) # -1) =>
        /\ Prefix(op.name) \in {<<"x">>, <<"h", "e", "x">>} =>
               IF IsByte(AfterPrefix(op.name))
               THEN ret = Ok(<<Chr(HexValue(AfterPrefix(op.name)))>>)
               ELSE /\ ret.t = "Err"
                    /\ ret.kind = "InvalidHex"
                    /\ ret.v[1] = AfterPrefix(op.name)
                    /\ ret.v[2] \in {<<"Empty">>, <<"InvalidDigit">>, <<"PosOverflow">>}
        /\ Prefix(op.name) = <<"e", "n", "v">> =>
               ret = IF AfterPrefix(op.name) \in DOMAIN env
                     THEN Ok(env[AfterPrefix(op.name)])
                     ELSE Err("UnknownEnv", AfterPrefix(op.name))

\* a literal too large for a byte has been looked up
C12_Witness ==
    /\ op.kind = "get_str"
    /\ op.name = HexBad
    /\ ret = Err("InvalidHex", <<<<"1", "f", "f">>, <<"PosOverflow">>>>)

\* C14: a lookup of an unqualified name that no frame binds to a string
\* (unbound, or bound to something else) and that the environment does not
\* define fails with VarNotFound.
C14_UnqualifiedMissIsVarNotFound ==
    (/\ op.kind = "get_str"
     /\ op.name \notin {MWD, SWD}
     /\ find(op.name, SEP) = -1
     /\ \A i \in Binding(pre, op.name) : pre[i][op.name].t # "Str"
     /\ op.name \notin DOMAIN env)
    => ret = Err("VarNotFound", <<>>)

\* x has been looked up where frames bind it to arrays only
C14_Witness ==
    /\ op.kind = "get_str"
    /\ op.name = X
    /\ Binding(pre, X) # {}
    /\ \A i \in Binding(pre, X) : pre[i][X].t = "Array"
    /\ X \notin DOMAIN env
    /\ ret = Err("VarNotFound", <<>>)

\* the name without its global:: or super:: qualifiers
Unqualified(name) ==
    IF starts_with(name, GLOBAL_NS) THEN slice_from(name, Len(GLOBAL_NS))
    ELSE strip_super(name, 0).name

\* the frame search of the lookup finds a string
FindsStr(sc, name) == get_ref(sc, name).t = "Some" /\ get_ref(sc, name).v.t = "Str"

\* C15: a lookup of an unqualified, global:: or super:: name whose frame
\* search finds no string falls back to the environment: when the environment
\* defines the variable named by the part after the qualifier, the lookup
\* returns the environment's value.
C15_EnvironmentFallback ==
    (/\ op.kind = "get_str"
     /\ op.name \notin {MWD, SWD}
     /\ \/ find(op.name, SEP) = -1
        \/ Prefix(op.name) \in {<<"s", "u", "p", "e", "r">>, <<"g", "l", "o", "b", "a", "l">>}
     /\ ~FindsStr(pre, op.name)
     /\ Unqualified(op.name) \in DOMAIN env)
    => ret = Ok(env[Unqualified(op.name)])

\* global::x has been looked up where the outermost frame does not bind x and
\* the environment defines x
C15_Witness ==
    /\ op.kind = "get_str"
    /\ op.name = GlobalX
    /\ ~FindsStr(pre, GlobalX)
    /\ X \in DOMAIN env

\* the text SWD replaces: HOME as a lookup gives it, ? when it gives none
Home(sc, e) ==
    IF FindsStr(sc, HOME) THEN get_ref(sc, HOME).v.v
    ELSE IF HOME \in DOMAIN e THEN e[HOME]
    ELSE <<"?">>

\* the path components that are not empty
PathComponents(path) == SelectNonEmpty(split(path, "/"))

\* a component reduced to its first grapheme, its first two when the first is .
Abbreviated(component) ==
    IF Head(component) = "."
    THEN SubSeq(component, 1, IF Len(component) < 2 THEN Len(component) ELSE 2)
    ELSE SubSeq(component, 1, 1)

\* the minimal form of a directory of more than two components
Minimal(path) ==
    LET cs == PathComponents(path)
    IN  concat([i \in 1..(Len(cs) - 1) |-> Abbreviated(cs[i]) \o <<"/">>]) \o cs[Len(cs)]

\* C16: when the simplified working directory has more than two non-empty
\* components, MWD is every component but the last reduced to its first
\* grapheme (first two when the first is .), joined with /, then the last
\* component in full; with two or fewer components MWD is SWD unchanged.
C16_MinimalDirectory ==
    (/\ op.kind = "get_str"
     /\ op.name = MWD
     /\ get_simplified_directory(pre, env).t = "Ok")
    => LET swd == get_simplified_directory(pre, env).v
       IN  ret = Ok(IF Len(PathComponents(swd)) > 2 THEN Minimal(swd) ELSE swd)

\* MWD has been looked up in a directory of three components and has
\* shortened the first two
C16_Witness ==
    /\ op.kind = "get_str"
    /\ op.name = MWD
    /\ PWD \in DOMAIN env
    /\ Len(PathComponents(env[PWD])) = 3
    /\ ret.t = "Ok"
    /\ Len(ret.v) < Len(env[PWD])

\* C17: SWD is PWD with its leading HOME prefix replaced by a tilde: only an
\* occurrence of HOME at the start of PWD is replaced, and a PWD that does not
\* start with HOME is returned unchanged.
C17_SimplifiedDirectory ==
    (op.kind = "get_str" /\ op.name = SWD /\ PWD \in DOMAIN env) =>
        ret = Ok(IF starts_with(env[PWD], Home(pre, env))
                 THEN <<"~">> \o slice_from(env[PWD], Len(Home(pre, env)))
                 ELSE env[PWD])

\* SWD has been looked up in a directory that holds HOME past its start
C17_Witness ==
    /\ op.kind = "get_str"
    /\ op.name = SWD
    /\ PWD \in DOMAIN env
    /\ ~starts_with(env[PWD], Home(pre, env))
    /\ find(env[PWD], Home(pre, env)) > 0

\* C13: for an unqualified name that is no pseudo-variable and a string v,
\* get_str(name) right after set(name, v) returns v, whatever the store held
\* and whether or not the environment defines the name.
C13_SetThenGetStr ==
    [][(/\ op.kind = "set"
        /\ op.value.t = "Str"
        /\ op'.kind = "get_str"
        /\ op'.name = op.name) => ret' = Ok(op.value.v)]_vars

\* x has been read back after a write of a string, from a store where an
\* outer frame binds x too and in an environment that defines x otherwise
C13_Witness ==
    /\ op.kind = "get_str"
    /\ op.name = X
    /\ X \in DOMAIN env
    /\ Cardinality(Binding(scopes, X)) >= 2
    /\ ret.t = "Ok"
    /\ ret.v # env[X]

------------------------------------------------------------------------------
(* Properties of run_pipeline *)

\* the call dispatches on a declared function: no alias branch, no builtin
CallsFunction(frame) ==
    /\ frame.kind = "run_pipeline"
    /\ ~frame.branched
    /\ frame.pipeline.jobs[1].command \notin DOMAIN Builtins
    /\ frame.pipeline.jobs[1].command \in DOMAIN functions

\* the function the call names
Callee(frame) == functions[frame.pipeline.jobs[1].command]

\* the number of arguments of the call, the command name excluded
Arguments(frame) == Len(frame.pipeline.jobs[1].args) - 1

\* the names of a parameter list
Formals(function) == {function.args[i] : i \in 1..Len(function.args)}

\* C1: after a function call whose argument count matches the declaration,
\* every formal parameter name has the value it had immediately before the
\* call, and is unset if it was unset before, whatever the parameter list and
\* the body.
C1_ParametersRestored ==
    (/\ Running("run_pipeline", "done")
     /\ CallsFunction(Top)
     /\ Arguments(Top) = Len(Callee(Top).args))
    => \A name \in Formals(Callee(Top)) :
           get_var(scopes, env, name) = get_var(Top.entry, env, name)

\* a matching call of a function with a body has returned
C1_Witness ==
    /\ Running("run_pipeline", "done")
    /\ CallsFunction(Top)
    /\ Arguments(Top) = Len(Callee(Top).args)
    /\ Callee(Top).statements # <<>>
    /\ Top.ran = <<"function">>

\* the calls an alias expansion has made and that are still in progress
ExpansionCalls ==
    {i \in 2..Len(stack) :
        stack[i].kind = "run_pipeline" /\ stack[i - 1].kind = "run_pipeline"}

\* a pipeline whose lead command is an alias that names itself is running
SelfAliasRunning ==
    \E i \in 1..Len(stack) :
        /\ stack[i].kind = "run_pipeline"
        /\ stack[i].branched
        /\ stack[i].pipeline.jobs[1].command \in SelfAliases

\* C2: a pipeline whose lead command is an alias whose text starts with the
\* alias's own name terminates; the call the expansion makes runs with alias
\* resolution disabled and never takes the alias branch.
C2_SelfAliasTerminates ==
    /\ [](\A i \in ExpansionCalls : stack[i].noalias /\ ~stack[i].branched)
    /\ (SelfAliasRunning ~> (stack = <<>>))

\* the call made by the expansion of a self-naming alias has dispatched
C2_Witness ==
    /\ Len(stack) >= 2
    /\ Running("run_pipeline", "done")
    /\ Top.noalias
    /\ Top.ran \in {<<"builtin">>, <<"function">>, <<"external">>, <<"arity">>}
    /\ stack[Len(stack) - 1].branched
    /\ stack[Len(stack) - 1].pipeline.jobs[1].command \in SelfAliases
    /\ Top.pipeline.jobs[1].command = stack[Len(stack) - 1].pipeline.jobs[1].command

\* C3: a call of a function with a number of arguments other than the number
\* of its parameters ends with a non-zero status, binds no parameter and does
\* not run the body: every variable other than ? is as it was before the call.
C3_ArityMismatchLeavesVariables ==
    (/\ Running("run_pipeline", "done")
     /\ CallsFunction(Top)
     /\ Arguments(Top) # Len(Callee(Top).args))
    => /\ Top.exit_status.t = "Some"
       /\ Top.exit_status.v # SUCCESS
       /\ previous_status # SUCCESS
       /\ Top.ran = <<"arity">>
       /\ Top.backup = EmptyFrame
       /\ Len(scopes) = Len(Top.entry)
       /\ \A i \in 1..Len(scopes) :
              /\ (DOMAIN scopes[i]) \ {StatusVar} = (DOMAIN Top.entry[i]) \ {StatusVar}
              /\ \A name \in (DOMAIN scopes[i]) \ {StatusVar} :
                     scopes[i][name] = Top.entry[i][name]

\* a call with too few or too many arguments has returned
C3_Witness ==
    /\ Running("run_pipeline", "done")
    /\ CallsFunction(Top)
    /\ Arguments(Top) # Len(Callee(Top).args)
    /\ Callee(Top).statements # <<>>
    /\ Binding(scopes, StatusVar) # {}

\* the alias text alone is one pipeline of one job
SingleCommand(alias) ==
    /\ Len(StatementSplitter(alias)) = 1
    /\ parse(StatementSplitter(alias)[1]).kind = "Pipelines"
    /\ Len(parse(StatementSplitter(alias)[1]).pipelines[1].jobs) = 1

\* C18: the text an alias expands to is the replacement followed by the
\* caller's remaining arguments joined by single spaces: the n remaining
\* arguments reach the expanded command as n arguments, in their order.
C18_AliasArgumentsReachCommand ==
    \A i \in ExpansionCalls :
        LET caller == stack[i - 1].pipeline.jobs[1]
        IN  SingleCommand(aliases[caller.command]) =>
                stack[i].pipeline.jobs[1].args =
                    words(aliases[caller.command]) \o Tail(caller.args)

\* an alias called with two arguments has expanded and made its call
C18_Witness ==
    \E i \in ExpansionCalls :
        /\ SingleCommand(aliases[stack[i - 1].pipeline.jobs[1].command])
        /\ Len(stack[i - 1].pipeline.jobs[1].args) = 3

\* the statements the alias branch of the call expands to
Expansion(frame) ==
    alias_statements(alias_text(aliases[frame.pipeline.jobs[1].command],
                                frame.pipeline.jobs[1]))

\* the call took the alias branch and its expansion holds a statement that is
\* no pipeline
ExpandsToNonPipeline(frame) ==
    /\ frame.kind = "run_pipeline"
    /\ ~frame.noalias
    /\ frame.pipeline.jobs[1].command \in DOMAIN aliases
    /\ \E j \in 1..Len(Expansion(frame)) : Expansion(frame)[j].kind # "Pipelines"

\* C19: when the expansion of an alias holds a statement that is no pipeline,
\* the run returns FAILURE, and ? and previous_status hold FAILURE afterwards,
\* whatever else the expansion holds.
C19_NonPipelineAliasFails ==
    (Running("run_pipeline", "done") /\ ExpandsToNonPipeline(Top)) =>
        /\ Top.exit_status = Some(FAILURE)
        /\ previous_status = FAILURE
        /\ get_var(scopes, env, StatusVar) = Some(to_string(FAILURE))

\* the run of an alias that expands to a lone statement that is no pipeline
\* has ended
C19_Witness ==
    /\ Running("run_pipeline", "done")
    /\ ExpandsToNonPipeline(Top)
    /\ Len(Expansion(Top)) = 1
    /\ Top.exit_status = Some(FAILURE)

\* the handler the priority order gives the call: the alias branch when alias
\* resolution is on and the name is an alias, else the builtin, else the
\* function (called or refused for its arity), else external execution
Handlers(frame) ==
    LET command == frame.pipeline.jobs[1].command
    IN  IF ~frame.noalias /\ command \in DOMAIN aliases THEN {"alias"}
        ELSE IF command \in DOMAIN Builtins THEN {"builtin"}
        ELSE IF command \in DOMAIN functions THEN {"function", "arity"}
        ELSE {"external"}

\* C20: a call of run_pipeline runs exactly one handler, chosen in the order
\* alias (when alias resolution is on), builtin, function, external; the
\* builtin, function or external branch is never taken in a call where the
\* alias branch ran.
C20_OneHandlerByPriority ==
    \A i \in 1..Len(stack) :
        stack[i].kind = "run_pipeline" =>
            /\ Len(stack[i].ran) <= 1
            /\ stack[i].pc \in {"summary", "status", "done"} => Len(stack[i].ran) = 1
            /\ \A j \in 1..Len(stack[i].ran) : stack[i].ran[j] \in Handlers(stack[i])

\* a name that is an alias, a builtin and a function has been run: the call
\* took the alias branch and the call of its expansion the builtin
C20_Witness ==
    /\ Len(stack) >= 2
    /\ Running("run_pipeline", "done")
    /\ Top.pipeline.jobs[1].command \in
           (DOMAIN aliases) \cap (DOMAIN Builtins) \cap (DOMAIN functions)
    /\ Top.ran = <<"builtin">>
    /\ stack[Len(stack) - 1].ran = <<"alias">>

\* the name is no builtin, no function and nothing execute_pipeline can start
Unresolvable(command) ==
    /\ command \notin DOMAIN Builtins
    /\ command \notin DOMAIN functions
    /\ command \notin Resolvable

\* the pipeline has several jobs, the first a builtin, a later one unresolvable
BuiltinThenUnresolvable(frame) ==
    /\ frame.kind = "run_pipeline"
    /\ Handlers(frame) = {"builtin"}
    /\ \E j \in 2..Len(frame.pipeline.jobs) : Unresolvable(frame.pipeline.jobs[j].command)

\* C21: a pipeline of several jobs whose first job is a builtin and whose
\* later job names no resolvable command ends with NO_SUCH_COMMAND in ? and
\* previous_status, not with the builtin's status.
C21_BuiltinThenUnresolvable ==
    (Running("run_pipeline", "done") /\ BuiltinThenUnresolvable(Top)) =>
        /\ Top.exit_status = Some(NO_SUCH_COMMAND)
        /\ previous_status = NO_SUCH_COMMAND
        /\ get_var(scopes, env, StatusVar) = Some(<<"1", "2", "7">>)

\* the run of such a pipeline has ended
C21_Witness ==
    /\ Running("run_pipeline", "done")
    /\ BuiltinThenUnresolvable(Top)
    /\ Top.ran = <<"builtin">>

\* the decimal string of each status of the model
Decimal ==
    (SUCCESS :> <<"0">>) @@ (FAILURE :> <<"1">>) @@ (2 :> <<"2">>)
    @@ (NO_SUCH_COMMAND :> <<"1", "2", "7">>)

\* C22: after a call of run_pipeline that results in a status c, ? holds the
\* decimal string of c and previous_status is c; for an external command c is
\* a code the collaborator returned.
C22_StatusIsRecorded ==
    (Running("run_pipeline", "done") /\ Top.exit_status.t = "Some") =>
        /\ Top.exit_status.v \in DOMAIN Decimal
        /\ get_var(scopes, env, StatusVar) = Some(Decimal[Top.exit_status.v])
        /\ previous_status = Top.exit_status.v
        /\ Top.ran = <<"external">> => Top.exit_status.v \in execute_pipeline(Top.pipeline)

\* an unresolvable command has run and 127 is recorded
C22_Witness ==
    /\ Running("run_pipeline", "done")
    /\ Top.ran = <<"external">>
    /\ Top.exit_status = Some(NO_SUCH_COMMAND)
    /\ previous_status = NO_SUCH_COMMAND

\* the call is a call of a function with as many arguments as parameters
MatchedCall(frame) ==
    CallsFunction(frame) /\ Arguments(frame) = Len(Callee(frame).args)

\* no statement of the body runs a pipeline
SetsNoStatus(statements) ==
    \A j \in 1..Len(statements) : statements[j].kind # "Pipelines"

\* C23: a function dispatch with matching arity writes no status itself:
\* run_pipeline returns none, what follows the body leaves ? and
\* previous_status as the body left them, and they are as before the call
\* when the body sets no status.
C23_FunctionWritesNoStatus ==
    /\ []((Running("run_pipeline", "done") /\ MatchedCall(Top)) =>
            /\ Top.exit_status = None
            /\ SetsNoStatus(Callee(Top).statements) =>
                   /\ previous_status = Top.entry_status
                   /\ get_var(scopes, env, StatusVar) = get_var(Top.entry, env, StatusVar))
    /\ [][(/\ stack # <<>>
            /\ MatchedCall(Top)
            /\ Top.pc \in {"restore", "summary", "status"}) =>
               /\ previous_status' = previous_status
               /\ get_var(scopes', env', StatusVar) = get_var(scopes, env, StatusVar)]_vars

\* a function whose body ran a failing builtin has returned: no status of its
\* own, the status of the builtin kept
C23_Witness ==
    /\ Running("run_pipeline", "done")
    /\ MatchedCall(Top)
    /\ Top.exit_status = None
    /\ Top.entry_status = SUCCESS
    /\ previous_status = FAILURE
    /\ get_var(scopes, env, StatusVar) = Some(<<"1">>)

\* the step of run_pipeline over lines 348-362
SummaryStep ==
    /\ Running("run_pipeline", "summary")
    /\ Len(stack') = Len(stack)
    /\ stack'[Len(stack)].pc = "status"

\* RECORD_SUMMARY reads as exactly "1"
RecordsSummary == get_var_or_empty(scopes, env, RECORD_SUMMARY) = <<"1">>

SummaryAppended == history' = Append(history, "#summary#")

\* the step changes neither the status the call returns nor the recorded one
SummaryKeepsStatus ==
    /\ stack'[Len(stack)].exit_status = Top.exit_status
    /\ previous_status' = previous_status
    /\ scopes' = scopes

\* C24 as claimed: the summary line is appended exactly when RECORD_SUMMARY
\* is "1", unless the append itself fails, and a failed append changes no
\* status.
C24_SummaryIffFlag ==
    [][SummaryStep =>
          /\ ~RecordsSummary => history' = history
          /\ RecordsSummary =>
                \/ SummaryAppended
                \/ history' = history /\ stack'[Len(stack)].summary = "push_failed"
          /\ SummaryKeepsStatus]_vars

\* C24: the summary line is appended only when RECORD_SUMMARY is "1" at the
\* end of the call, and then exactly when the elapsed time could be read and
\* the append succeeded; with any other value nothing is appended; the step
\* never changes a status and the call goes on to its status update.
C24_SummaryIffFlagAndElapsed ==
    [][SummaryStep =>
          /\ ~RecordsSummary =>
                /\ history' = history
                /\ stack'[Len(stack)].summary \in {"flag_off", "no_elapsed"}
          /\ RecordsSummary =>
                \/ SummaryAppended /\ stack'[Len(stack)].summary = "pushed"
                \/ /\ history' = history
                   /\ stack'[Len(stack)].summary \in {"push_failed", "no_elapsed"}
          /\ SummaryKeepsStatus]_vars

\* a call has appended its summary line and goes on to the status update
C24_Witness ==
    /\ Running("run_pipeline", "status")
    /\ Top.summary = "pushed"
    /\ history # <<>>
    /\ get_var_or_empty(scopes, env, RECORD_SUMMARY) = <<"1">>

\* C25: every call of run_pipeline ends: the interpreter comes to rest after
\* every command, a call leaves the stack only from Done, and at Done it has
\* passed the history-record step and the status update once each and run
\* one handler once, whichever of alias expansion, builtin, function, arity
\* mismatch and external command it took.
C25_ReachesDoneOnce ==
    /\ (stack # <<>>) ~> (stack = <<>>)
    /\ []((Running("run_pipeline", "done")) =>
            /\ Top.passed = <<"history", "status">>
            /\ Len(Top.ran) = 1)
    /\ [][(stack # <<>> /\ Top.kind = "run_pipeline" /\ Len(stack') < Len(stack)) =>
              Top.pc = "done"]_vars

\* calls of each kind have reached Done within one command: an alias whose
\* expansion called a function whose body ran a builtin
C25_Witness ==
    /\ Running("run_pipeline", "done")
    /\ Top.ran = <<"alias">>
    /\ Top.passed = <<"history", "status">>
    /\ previous_status = FAILURE
    /\ Len(stack) = 2

\* the names the shell's commands read and write
ShellNames == {X, Y, StatusVar, RECORD_SUMMARY}

\* the step that replays the capture set of the call on top
RestoreStep ==
    /\ Running("run_pipeline", "restore")
    /\ Len(stack') = Len(stack)
    /\ stack'[Len(stack)].pc = "summary"

\* C26: restoration after a function call touches only the call's own
\* formal parameters: every other variable keeps the value the body left,
\* and once a call has returned, nested calls included, each of its
\* parameter names has its value from before that call.
C26_RestorationTouchesOnlyFormals ==
    /\ [][RestoreStep =>
              \A name \in ShellNames \ Formals(Callee(Top)) :
                  get_var(scopes', env', name) = get_var(scopes, env, name)]_vars
    /\ []((Running("run_pipeline", "done") /\ MatchedCall(Top)) =>
            \A name \in Formals(Callee(Top)) :
                get_var(scopes, env, name) = get_var(Top.entry, env, name))

\* a call whose body made a nested call has returned
C26_Witness ==
    /\ Running("run_pipeline", "done")
    /\ MatchedCall(Top)
    /\ Top.ran = <<"function">>
    /\ \E j \in 1..Len(Callee(Top).statements) :
           Callee(Top).statements[j].kind = "Pipelines"

\* the body of the matching call made by frame i of the stack is running
BodyRuns(i) ==
    /\ i >= 1
    /\ i < Len(stack)
    /\ stack[i].kind = "run_pipeline"
    /\ stack[i].pc = "restore"
    /\ stack[i + 1].kind = "execute_statements"

\* C27: a function call with matching arity creates a frame on entry and
\* destroys it on return: while the body runs the scope stack is one frame
\* deeper than at the call site, and it has the call-site depth again once
\* the call has returned.
C27_CallPushesFrame ==
    /\ (stack # <<>> /\ BodyRuns(Len(stack) - 1)) =>
           Len(scopes) = Len(stack[Len(stack) - 1].entry) + 1
    /\ (Running("run_pipeline", "done") /\ MatchedCall(Top)) =>
           Len(scopes) = Len(Top.entry)

\* the body of a matching call is running
C27_Witness ==
    /\ stack # <<>>
    /\ BodyRuns(Len(stack) - 1)
    /\ Top.statements # <<>>
    /\ MatchedCall(stack[Len(stack) - 1])

\* C28: pop_scopes(index) leaves the frames up to the index as they were and
\* returns the frames above it, and append_scopes of the returned frames
\* right after it gives back the stack from before the detach: the same
\* frames in the same order with the same bindings.
C28_DetachThenReattach ==
    /\ [][op'.kind = "pop_scopes" =>
              /\ scopes' = SubSeq(scopes, 1, op'.index + 1)
              /\ scopes' \o detached' = scopes]_vars
    /\ [][(op.kind = "pop_scopes" /\ op'.kind = "append_scopes") =>
              scopes' = pre]_vars

\* two different frames were detached and are attached again
C28_Witness ==
    /\ op.kind = "append_scopes"
    /\ Len(pre) = 1
    /\ Len(scopes) = 3
    /\ scopes[2] # scopes[3]
    /\ scopes[1] # scopes[2]

\* the step of the read loop that is the call of update_variables
UpdateStep ==
    /\ Running("execute", "update")
    /\ Len(stack') = Len(stack)
    /\ stack'[Len(stack)].pc = "readln"

\* the variable of the process environment, empty when it has none
EnvOrEmpty(e, name) == IF name \in DOMAIN e THEN e[name] ELSE <<>>

\* the three statements of the claim about PWD before and after the step,
\* OLDPWD after it, and the current directory
FollowsDirectory(before, after, old_after, current) ==
    /\ after = current
    /\ current # before => old_after = before
    /\ current = before => env' = env /\ scopes' = scopes

\* C29: update_variables, called once at the end of every iteration of the
\* read loop, makes PWD the current directory of the process; OLDPWD
\* becomes the previous PWD exactly when the two differ, and nothing is
\* written when they are equal. PWD is read either as the shell looks it up
\* or as the process environment holds it, the same way throughout.
C29_PwdFollowsDirectory ==
    [][(UpdateStep /\ op'.value.t = "Ok" /\ op'.value.v.unicode) =>
          \/ FollowsDirectory(get_var_or_empty(scopes, env, PWD),
                              get_var_or_empty(scopes', env', PWD),
                              get_var_or_empty(scopes', env', OLDPWD),
                              op'.value.v.text)
          \/ FollowsDirectory(EnvOrEmpty(env, PWD), EnvOrEmpty(env', PWD),
                              EnvOrEmpty(env', OLDPWD), op'.value.v.text)]_vars

\* the process has changed its directory and the loop has caught up
C29_Witness ==
    /\ Running("execute", "readln")
    /\ op.kind = "update_variables"
    /\ op.value = Ok(PathBuf(<<"/", "p">>))
    /\ EnvOrEmpty(env, PWD) = <<"/", "p">>
    /\ EnvOrEmpty(env, OLDPWD) = <<"/", "h">>

\* C30: the request on_event builds carries an index into its own argument
\* list: whatever the buffer and the cursor position, also with several
\* statements separated by words that end in |, & or ;, the subtraction
\* index - len_diff does not underflow and 0 <= word < length(argv).
C30_IndexWithinArgv ==
    op.kind = "BeforeComplete" =>
        /\ ret # Panic
        /\ ret.t = "VariableAndFiles" => ret.word >= 0 /\ ret.word < Len(ret.argv)

\* a request for the second word of a statement of two words
C30_Witness ==
    /\ op.kind = "BeforeComplete"
    /\ op.name = <<<<"x", ";">>, <<"l", "s">>, <<"x">>>>
    /\ op.value = OnWordRightEdge(2)
    /\ ret = VariableAndFiles(<<<<"l", "s">>, <<"x">>>>, 1)

\* the step of the loop that decides on the history
HistoryStep == Running("execute", "history") /\ stack'[Len(stack)].pc = "update"

\* the command was sent to the history: pushed, or refused by the context
SentToHistory == stack'[Len(stack)].summary \in {"pushed", "push_failed"}

\* the lines that run to a good end whatever ran before: the builtin t, and
\* f called with its one argument
SucceedingLines == {<<"t">>, <<"f", " ", "a">>}

\* C31: in the interactive loop a command line that is not empty is sent to
\* the history after it ran if and only if its status is not NO_SUCH_COMMAND
\* or a flow-control block is open; in particular a command that succeeded is
\* always sent to the history, whatever the status of the command before it.
C31_SucceededIsRecorded ==
    [][HistoryStep =>
          /\ SentToHistory <=>
                 (previous_status # NO_SUCH_COMMAND \/ flow_control_level > 0)
          /\ SentToHistory => (history' = history \/
                               history' = Append(history, Top.statements[1]))
          /\ ~SentToHistory => history' = history
          /\ Top.statements[1] \in SucceedingLines => SentToHistory]_vars

\* z, which does not exist, then f a, which ran: f a is not in the history
C31_Witness ==
    /\ Running("execute", "update")
    /\ commands = 2
    /\ previous_status = NO_SUCH_COMMAND
    /\ Top.statements = <<<<"f", " ", "a">>>>
    /\ Top.summary = "skipped"
    /\ history = <<>>

\* C33: a lookup of MWD or SWD never crashes: for every value of PWD, unset,
\* empty or with a component that is exactly a dot, and every value of HOME,
\* get_str returns a string or an error value.
C33_DirectoryLookupReturns ==
    (op.kind = "get_str" /\ op.name \in {MWD, SWD}) => ret.t \in {"Ok", "Err"}

\* MWD has been looked up in /./p/p, where PWD is set and HOME is /h
C33_Witness ==
    /\ op.kind = "get_str"
    /\ op.name = MWD
    /\ PWD \in DOMAIN env
    /\ env[PWD] = Path(<<<<".">>, <<"p">>, <<"p">>>>)
    /\ HOME \in DOMAIN env
    /\ ret = Panic

\* the call names one of the words among its arguments
Invokes(call, flag_words) ==
    \E i \in 1..Len(call.name) : call.name[i] \in flag_words

\* the process was started as a login shell: its name begins with a dash
LoginShell(call) == Head(Head(call.value.process_args)) = "-"

\* the condition a flag of the call asks for fails
ConditionFails(call) ==
    \/ Invokes(call, {IsLoginFlag, <<"-", "l">>}) /\ ~LoginShell(call)
    \/ Invokes(call, {IsInteractiveFlag, <<"-", "i">>}) /\ call.value.is_background_shell

\* C32: status invoked with --is-login or -l returns an error exactly when
\* the shell is no login shell, invoked with --is-interactive or -i exactly
\* when the shell is a background shell; when neither condition fails it
\* returns Ok, and it never modifies the state of the shell.
C32_StatusFlags ==
    [][(/\ op'.kind = "status"
        /\ Invokes(op', {IsLoginFlag, <<"-", "l">>, IsInteractiveFlag, <<"-", "i">>}))
       => /\ ConditionFails(op') => ret'.t = "Err"
          /\ ~ConditionFails(op') => ret'.t = "Ok"
          /\ UNCHANGED <<scopes, detached, env>>
          /\ UNCHANGED shellVars]_vars

\* status --is-login in a login shell has returned an error
C32_Witness ==
    /\ op.kind = "status"
    /\ op.name = <<StatusName, IsLoginFlag>>
    /\ LoginShell(op)
    /\ ~op.value.is_background_shell
    /\ ret.result = Err("String", "status takes one argument\n")

\* C34: escape and unescape of the completer are inverse on file names: for
\* every string s, with or without backslashes and special characters,
\* unescape(escape(s)) = s.
C34_UnescapeInvertsEscape ==
    op.kind = "unescape" => ret = op.name

\* a backslash before a blank has come back as two backslashes and the blank
C34_Witness ==
    /\ op.kind = "unescape"
    /\ op.name = <<"\\", " ">>
    /\ op.value = <<"\\", "\\", " ">>
    /\ ret = <<"\\", "\\", " ">>

==============================================================================
